---- MODULE Spec2Model ----
(***************************************************************************)
(* A model of the go-cache engine: the Item predicates, the in-memory      *)
(* storage with its reader/writer lock, the janitor, the cache operations  *)
(* (Set, Add, Replace, Get, Delete, Flush, Increment/Decrement) at the     *)
(* granularity of their lock, read and write statements, and the refresh   *)
(* dispatch pipeline (dedup map, push goroutines, queue, workers).         *)
(***************************************************************************)
EXTENDS Integers, Sequences, FiniteSets, TLC

(* ---------------------------------------------------------------- bounds *)
\* Number of concurrent callers of the concurrent specifications.
NumCallers == 2
\* The clock runs from 0 to MaxTime.
MaxTime == 2
\* Largest positive expiration duration a caller passes.
MaxDuration == 1
\* Calls one caller makes in the sequential specification.
MaxCalls == 3
\* Refresh workers a cache may be constructed with.
MaxWorkers == 1
\* The largest default expiration a cache is constructed with.
MaxDefault == 2
\* Bits of a timestamp (64 in the code).
StampBits == 5

(* ------------------------------------------------------------- constants *)
NoExpiration == -1
NoRefreshDeadline == -1
DefaultExpiration == 0
\* make(chan string, 100)
RefreshQueueCap == 100

Keys == {"k1", "k2"}
Procs == 1..NumCallers
Workers == 1..MaxWorkers

(* ---------------------------------------------------------------- values *)
\* Go's dynamically typed interface{} value: a type tag and a payload.  The
\* payload of a string is an index into some fixed list of strings.
IntTypes == {"int8", "uint8", "int16", "uint16"}
FloatTypes == {"float64"}
Obj(ty, v) == [type |-> ty, val |-> v]
Nil == Obj("nil", 0)

Bits(ty) == IF ty \in {"int8", "uint8"} THEN 8 ELSE 16
Signed(ty) == ty \in {"int8", "int16"}
Pow2(n) == 2 ^ n

\* Conversion of an integer to the fixed-width type ty, as Go's T(n) does it:
\* the low Bits(ty) bits, read as two's complement when ty is signed.
Truncate(ty, x) ==
    LET m == x % Pow2(Bits(ty))
    IN  IF Signed(ty) /\ m >= Pow2(Bits(ty) - 1) THEN m - Pow2(Bits(ty)) ELSE m

\* Mutant of AddN: the sum is taken in int64 and not converted back to T.
AddNWide(ty, rv, n) == rv + n

\* rv + T(n) in type T (wrapping); floats are modelled on integral values.
AddN(ty, rv, n) ==
    IF ty \in IntTypes THEN Truncate(ty, rv + Truncate(ty, n)) ELSE rv + n

\* Mutant of SubN: an unsigned value is not taken below 0.
SubNClamped(ty, rv, n) ==
    IF ty \in IntTypes
    THEN IF ~Signed(ty) /\ rv - Truncate(ty, n) < 0 THEN 0
         ELSE Truncate(ty, rv - Truncate(ty, n))
    ELSE rv - n

\* rv - T(n) in type T (wrapping).
SubN(ty, rv, n) ==
    IF ty \in IntTypes THEN Truncate(ty, rv - Truncate(ty, n)) ELSE rv - n

(* ------------------------------------------------------------------ Item *)
Item(x, e, erd) == [Object |-> x, Expiration |-> e, RefreshDeadline |-> erd]
ZeroItem == Item(Nil, 0, 0)

\* Mutant of Expired: no entry ever counts as expired.
ExpiredNever(item, t) == FALSE

\* Item.Expired at clock reading t.
Expired(item, t) ==
    IF item.Expiration = 0 THEN FALSE ELSE t > item.Expiration

\* Item.RefreshDeadlineReached at clock reading t.
RefreshDeadlineReached(item, t) ==
    IF item.RefreshDeadline = 0 THEN FALSE ELSE t > item.RefreshDeadline

(* --------------------------------------------------------- memoryStorage *)
\* The map is a function whose domain is the set of stored keys.
\* Mutant of storageFound: the lookup ignores the key.
storageFoundAnyKey(m, k) == DOMAIN m # {}
storageFound(m, k) == k \in DOMAIN m
storageGet(m, k) == IF k \in DOMAIN m THEN m[k] ELSE ZeroItem
\* Mutant of storageSet: a key that is present keeps its item.
storageSetIfAbsent(m, k, item) ==
    [x \in DOMAIN m \cup {k} |-> IF x \in DOMAIN m THEN m[x] ELSE item]
\* Mutant of storageSet: the map is replaced by one that holds only k.
storageSetAlone(m, k, item) == [x \in {k} |-> item]
storageSet(m, k, item) ==
    [x \in DOMAIN m \cup {k} |-> IF x = k THEN item ELSE m[x]]
\* Mutant of storageDel: nothing is removed.
storageDelNothing(m, k) == m
storageDel(m, k) == [x \in DOMAIN m \ {k} |-> m[x]]
EmptyMap == [x \in {} |-> ZeroItem]

\* Mutant of DeleteExpired: the test for an expiration is missing.
DeleteExpiredNoZeroTest(m, t) ==
    LET gone == {k \in DOMAIN m : t > m[k].Expiration}
    IN  [x \in DOMAIN m \ gone |-> m[x]]

\* The loop of memoryStorage.DeleteExpired, with the clock reading t taken
\* before the lock.
DeleteExpired(m, t) ==
    LET gone == {k \in DOMAIN m : m[k].Expiration > 0 /\ t > m[k].Expiration}
    IN  [x \in DOMAIN m \ gone |-> m[x]]

(* ------------------------------------------------- timestamps of a write *)
\* newCache: a configured default of 0 becomes -1.
NormalizeDefault(de) == IF de = 0 THEN -1 ELSE de

\* Time.UnixNano: the nanoseconds of an instant as an int64, which wraps when
\* the instant is past the last one an int64 holds (StampBits bits here).
UnixNano(x) ==
    ((x + Pow2(StampBits - 1)) % Pow2(StampBits)) - Pow2(StampBits - 1)

\* Mutant of ExpirationOf: the duration argument is ignored for the default.
ExpirationOfDefaultOnly(d, de, t) == IF de > 0 THEN t + de ELSE 0

\* The expiration computed by Set and set from the duration d at clock t.
ExpirationOf(d, de, t) ==
    LET dd == IF d = DefaultExpiration THEN de ELSE d
    IN  IF dd > 0 THEN UnixNano(t + dd) ELSE 0

\* The refresh deadline computed by Set and set from rd at clock t.
RefreshDeadlineOf(rd, t) == IF rd > 0 THEN UnixNano(t + rd) ELSE 0

(* ----------------------------------------------------------------- state *)
VARIABLES
    now,                      \* time.Now().UnixNano()
    configured,               \* the defaultExpiration New was called with
    defaultExpiration,        \* cache.defaultExpiration
    refreshWorkerCount,       \* workers started by newCache
    janitorOn,                \* New was given a cleanup interval > 0
    oneShot,                  \* callers make one call each and keep its result
                              \* (else a caller drops a result when it returns)
    items,                    \* memoryStorage.items
    writer,                   \* holder of memoryStorage.mutex.Lock, or NoProc
    readers,                  \* holders of memoryStorage.mutex.RLock
    onRefreshNeeded,          \* cache.onRefreshNeeded: "nil" or a callback name
    refreshConcurrencyMap,    \* the dedup set
    refreshConcurrencyMutex,  \* its holder, or NoProc
    refreshKeys,              \* the refresh queue
    pushers,                  \* per key, goroutines running c.refreshKeys <- k
    pc, op, locals, ret,      \* per caller: position, call, locals, result
    ncalls,                   \* per caller: calls made so far
    wpc, wkey,                \* per refresh worker: position and key in hand
    wlocals,                  \* per refresh worker: e, erd of the Set its callback makes
    jpc, jnow,                \* janitor: position and its clock reading
    panicked,                 \* a goroutine panicked: the process is gone
    lastWrite,                \* history: per key, the write its entry stems from
    everWritten,              \* history: keys an entry was ever stored under
    removedBy,                \* history: per key, "Delete" or "Flush" if that
                              \* call removed what was last written to the
                              \* key, "no" if none did
    invoked                   \* history: per key, callbacks started since the
                              \* key last entered the dedup set

cfgVars == <<configured, defaultExpiration, refreshWorkerCount, janitorOn, oneShot>>
lockVars == <<writer, readers>>
refreshVars == <<refreshConcurrencyMap, refreshConcurrencyMutex, refreshKeys, pushers, invoked>>
procVars == <<pc, op, locals, ret, ncalls>>
workerVars == <<wpc, wkey, wlocals>>
janVars == <<jpc, jnow>>
histVars == <<lastWrite, everWritten, removedBy>>
vars == <<now, cfgVars, items, lockVars, onRefreshNeeded, refreshVars, procVars,
          workerVars, janVars, panicked, histVars>>

(* ----------------------------------------------------------------- calls *)
ArithNames ==
    {"Increment", "Decrement", "IncrementFloat", "DecrementFloat",
     "IncrementTyped", "DecrementTyped"}
WriteNames == {"Set", "Add", "Replace"}

Op(name, k, x, d, rd, n, ty) ==
    [name |-> name, k |-> k, x |-> x, d |-> d, rd |-> rd, n |-> n, ty |-> ty]
NoOp == Op("none", "k1", Nil, 0, 0, 0, "nil")

\* e, erd, v (or item) and found of the source; t is the time.Now() that e
\* and erd were computed from.
Locals(e, erd, v, found, t) ==
    [e |-> e, erd |-> erd, v |-> v, found |-> found, t |-> t]
NoLocals == Locals(0, 0, ZeroItem, FALSE, 0)

\* What a call returns: the value, the found flag, the error, and (history)
\* the clock reading its expiry test used.
Ret(value, found, err, at) == [value |-> value, found |-> found, err |-> err, at |-> at]
NoRet == Ret(Nil, FALSE, "pending", 0)

Running == ~panicked

\* Holders of the two locks.
Caller(p) == <<"caller", p>>
Worker(w) == <<"worker", w>>
Janitor == <<"janitor", 0>>
NoProc == <<"none", 0>>

K(p) == op[p].k

(* ------------------------------------------------- sync.RWMutex, storage *)
\* Mutant of CanLock: Lock does not wait for the holder of the lock.
CanLockAlways == TRUE
\* mutex.Lock returns once no reader and no writer holds the lock.
CanLock == writer = NoProc /\ readers = {}
\* Mutant of CanRLock: RLock does not wait for the writer.
CanRLockAlways == TRUE
\* mutex.RLock returns once no writer holds the lock.
CanRLock == writer = NoProc

\* The statement a call runs first inside its critical section.
AfterLock(name) ==
    CASE name = "Set" -> "Store"
      [] name \in {"Add", "Replace"} -> "get"
      [] name \in ArithNames -> "Load"
      [] name = "Delete" -> "Del"
      [] name = "Flush" -> "FlushItems"
      [] OTHER -> "SetCallback"

\* A call starts: Set computes e and erd before it asks for the lock.
Begin(p, o) ==
    /\ Running
    /\ pc[p] = "idle"
    /\ op' = [op EXCEPT ![p] = o]
    /\ locals' = [locals EXCEPT ![p] =
            IF o.name = "Set"
            THEN Locals(ExpirationOf(o.d, defaultExpiration, now),
                        RefreshDeadlineOf(o.rd, now), ZeroItem, FALSE, now)
            ELSE NoLocals]
    /\ ret' = [ret EXCEPT ![p] = NoRet]
    /\ pc' = [pc EXCEPT ![p] = IF o.name = "Get" THEN "RLock" ELSE "Lock"]
    /\ ncalls' = [ncalls EXCEPT ![p] = @ + 1]
    /\ UNCHANGED <<now, cfgVars, items, lockVars, onRefreshNeeded, refreshVars,
                   workerVars, janVars, panicked, histVars>>

\* The call returns to its caller.
Return(p) ==
    IF oneShot
    THEN /\ pc' = [pc EXCEPT ![p] = "done"]
         /\ UNCHANGED <<op, locals, ret>>
    ELSE /\ pc' = [pc EXCEPT ![p] = "idle"]
         /\ op' = [op EXCEPT ![p] = NoOp]
         /\ locals' = [locals EXCEPT ![p] = NoLocals]
         /\ ret' = [ret EXCEPT ![p] = NoRet]

\* c.storage.Lock()
Lock(p) ==
    /\ Running
    /\ pc[p] = "Lock"
    /\ CanLock
    /\ writer' = Caller(p)
    /\ pc' = [pc EXCEPT ![p] = AfterLock(op[p].name)]
    /\ UNCHANGED <<now, cfgVars, items, readers, onRefreshNeeded, refreshVars,
                   op, locals, ret, ncalls, workerVars, janVars, panicked, histVars>>

\* Mutant of Unlock: a call that returns an error returns with the lock.
UnlockOnSuccessOnly(p) ==
    /\ Running
    /\ pc[p] = "Unlock"
    /\ writer' = IF ret[p].err = "" THEN NoProc ELSE writer
    /\ Return(p)
    /\ UNCHANGED <<now, cfgVars, items, readers, onRefreshNeeded, refreshVars,
                   ncalls, workerVars, janVars, panicked, histVars>>

\* c.storage.Unlock() and return
Unlock(p) ==
    /\ Running
    /\ pc[p] = "Unlock"
    /\ writer' = NoProc
    /\ Return(p)
    /\ UNCHANGED <<now, cfgVars, items, readers, onRefreshNeeded, refreshVars,
                   ncalls, workerVars, janVars, panicked, histVars>>

\* c.storage.RLock()
RLock(p) ==
    /\ Running
    /\ pc[p] = "RLock"
    /\ CanRLock
    /\ readers' = readers \cup {p}
    /\ pc' = [pc EXCEPT ![p] = "Get"]
    /\ UNCHANGED <<now, cfgVars, items, writer, onRefreshNeeded, refreshVars,
                   op, locals, ret, ncalls, workerVars, janVars, panicked, histVars>>

\* c.storage.RUnlock() and return
RUnlock(p) ==
    /\ Running
    /\ pc[p] = "RUnlock"
    /\ readers' = readers \ {p}
    /\ Return(p)
    /\ UNCHANGED <<now, cfgVars, items, writer, onRefreshNeeded, refreshVars,
                   ncalls, workerVars, janVars, panicked, histVars>>

(* ------------------------------------------------------ history updates *)
\* lastWrite[k] is the Set, Add or Replace the entry of k stems from: the value
\* x it wrote, the clock reading t and the resolved duration d it computed the
\* expiration from, and the count and net sum of the arithmetic calls that
\* rewrote the entry since.  Delete and Flush forget it; the janitor does not.
Wrote(k, x, d, t) ==
    /\ lastWrite' = storageSet(lastWrite, k,
            [x |-> x, t |-> t,
             d |-> IF d = DefaultExpiration THEN defaultExpiration ELSE d,
             arith |-> 0, sum |-> 0])
    /\ everWritten' = everWritten \cup {k}
    /\ removedBy' = [removedBy EXCEPT ![k] = "no"]

Rewrote(k, delta) ==
    /\ lastWrite' = IF k \in DOMAIN lastWrite
                    THEN [lastWrite EXCEPT ![k].arith = @ + 1, ![k].sum = @ + delta]
                    ELSE lastWrite
    /\ everWritten' = everWritten \cup {k}
    /\ UNCHANGED removedBy

(* ------------------------------------------------------------------- Set *)
\* Set: c.storage.Set(k, item) with the timestamps computed before the lock.
Store(p) ==
    /\ Running
    /\ pc[p] = "Store"
    /\ items' = storageSet(items, K(p), Item(op[p].x, locals[p].e, locals[p].erd))
    /\ ret' = [ret EXCEPT ![p] = Ret(Nil, TRUE, "", now)]
    /\ pc' = [pc EXCEPT ![p] = "Unlock"]
    /\ Wrote(K(p), op[p].x, op[p].d, locals[p].t)
    /\ UNCHANGED <<now, cfgVars, lockVars, onRefreshNeeded, refreshVars,
                   op, locals, ncalls, workerVars, janVars, panicked>>

\* The same s.items[key] = item at the grain of the fields of the Item: the
\* assignment copies three fields and is not atomic, so that a goroutine
\* reading the map meanwhile could see some fields of the new entry beside
\* others of the old one (of the zero Item if the key is new).  StorePart
\* writes any part of the fields, StoreRest the rest.
Mixed(old, new) ==
    {Item(x, e, erd) : x \in {old.Object, new.Object},
                       e \in {old.Expiration, new.Expiration},
                       erd \in {old.RefreshDeadline, new.RefreshDeadline}}

StorePart(p) ==
    /\ Running
    /\ pc[p] = "Store"
    /\ \E part \in Mixed(storageGet(items, K(p)),
                          Item(op[p].x, locals[p].e, locals[p].erd)) :
            items' = storageSet(items, K(p), part)
    /\ pc' = [pc EXCEPT ![p] = "StoreRest"]
    /\ UNCHANGED <<now, cfgVars, lockVars, onRefreshNeeded, refreshVars,
                   op, locals, ret, ncalls, workerVars, janVars, panicked, histVars>>

StoreRest(p) ==
    /\ Running
    /\ pc[p] = "StoreRest"
    /\ items' = storageSet(items, K(p), Item(op[p].x, locals[p].e, locals[p].erd))
    /\ ret' = [ret EXCEPT ![p] = Ret(Nil, TRUE, "", now)]
    /\ pc' = [pc EXCEPT ![p] = "Unlock"]
    /\ Wrote(K(p), op[p].x, op[p].d, locals[p].t)
    /\ UNCHANGED <<now, cfgVars, lockVars, onRefreshNeeded, refreshVars,
                   op, locals, ncalls, workerVars, janVars, panicked>>

(* ------------------------------------------------------------------- Get *)
\* Mutant of Live: the entry is dropped at its expiration instant already.
LiveOffByOne(item, t) == ~(item.Expiration > 0 /\ t >= item.Expiration)

\* Mutant of Live: a stored entry is reported whatever its expiration.
LiveAlways(item, t) == TRUE

\* An entry a read reports as found at clock t (the inlined expiry test).
Live(item, t) == ~(item.Expiration > 0 /\ t > item.Expiration)

\* Mutant of Stale: every entry found counts as stale.
StaleAlways(item, t) == TRUE

\* The staleness test of Get and get.
Stale(item, t) == item.RefreshDeadline > 0 /\ RefreshDeadlineReached(item, t)

\* Mutant of Get: an entry found expired is removed by the read.
GetRemovesExpired(p) ==
    LET item == storageGet(items, K(p))
        found == storageFound(items, K(p)) /\ Live(item, now)
    IN  /\ Running
        /\ pc[p] = "Get"
        /\ locals' = [locals EXCEPT ![p] = Locals(0, 0, item, found, now)]
        /\ ret' = [ret EXCEPT ![p] =
                IF found THEN Ret(item.Object, TRUE, "", now)
                ELSE Ret(Nil, FALSE, "", now)]
        /\ pc' = [pc EXCEPT ![p] =
                IF found /\ Stale(item, now) THEN "RefreshLock" ELSE "RUnlock"]
        /\ items' = IF found THEN items ELSE storageDel(items, K(p))
        /\ UNCHANGED <<now, cfgVars, lockVars, onRefreshNeeded, refreshVars,
                       op, ncalls, workerVars, janVars, panicked, histVars>>

\* Get between RLock and the refresh dispatch: the lookup and the two tests.
Get(p) ==
    LET item == storageGet(items, K(p))
        found == storageFound(items, K(p)) /\ Live(item, now)
    IN  /\ Running
        /\ pc[p] = "Get"
        /\ locals' = [locals EXCEPT ![p] = Locals(0, 0, item, found, now)]
        /\ ret' = [ret EXCEPT ![p] =
                IF found THEN Ret(item.Object, TRUE, "", now)
                ELSE Ret(Nil, FALSE, "", now)]
        /\ pc' = [pc EXCEPT ![p] =
                IF found /\ Stale(item, now) THEN "RefreshLock" ELSE "RUnlock"]
        /\ UNCHANGED <<now, cfgVars, items, lockVars, onRefreshNeeded, refreshVars,
                       op, ncalls, workerVars, janVars, panicked, histVars>>

(* ------------------------------------------------------ Add and Replace *)
\* Mutant of FoundErr: Add does not refuse a key that is found.
FoundErrAddOverwrites(name, found) ==
    IF name = "Replace" /\ ~found THEN "NotFound" ELSE "pending"

\* The error Add or Replace returns once get has answered found.
FoundErr(name, found) ==
    IF name = "Add" /\ found THEN "AlreadyExists"
    ELSE IF name = "Replace" /\ ~found THEN "NotFound"
    ELSE "pending"

\* Mutant of AfterGet: the early return on the error is missing.
AfterGetFallsThrough(name, found) == "set"

\* Where Add or Replace goes once get has answered found.
AfterGet(name, found) ==
    IF FoundErr(name, found) = "pending" THEN "set" ELSE "Unlock"

\* c.get(k) of Add and Replace, up to the refresh dispatch.
get(p) ==
    LET item == storageGet(items, K(p))
        found == storageFound(items, K(p)) /\ Live(item, now)
    IN  /\ Running
        /\ pc[p] = "get"
        /\ locals' = [locals EXCEPT ![p] = Locals(0, 0, item, found, now)]
        /\ ret' = [ret EXCEPT ![p] =
                Ret(Nil, found, FoundErr(op[p].name, found), now)]
        /\ pc' = [pc EXCEPT ![p] =
                IF found /\ Stale(item, now) THEN "RefreshLock"
                ELSE AfterGet(op[p].name, found)]
        /\ UNCHANGED <<now, cfgVars, items, lockVars, onRefreshNeeded, refreshVars,
                       op, ncalls, workerVars, janVars, panicked, histVars>>

\* c.set(k, x, d, rd) inside the critical section of Add and Replace.
set(p) ==
    /\ Running
    /\ pc[p] = "set"
    /\ items' = storageSet(items, K(p),
            Item(op[p].x, ExpirationOf(op[p].d, defaultExpiration, now),
                 RefreshDeadlineOf(op[p].rd, now)))
    /\ locals' = [locals EXCEPT ![p].t = now]
    /\ ret' = [ret EXCEPT ![p].err = ""]
    /\ pc' = [pc EXCEPT ![p] = "Unlock"]
    /\ Wrote(K(p), op[p].x, op[p].d, now)
    /\ UNCHANGED <<now, cfgVars, lockVars, onRefreshNeeded, refreshVars,
                   op, ncalls, workerVars, janVars, panicked>>

(* ------------------------------------------------------ refresh dispatch *)
\* c.refreshConcurrencyMutex.Lock() of Get and get (first and second time).
RefreshLock(p) ==
    /\ Running
    /\ pc[p] \in {"RefreshLock", "RefreshLock2"}
    /\ refreshConcurrencyMutex = NoProc
    /\ refreshConcurrencyMutex' = Caller(p)
    /\ pc' = [pc EXCEPT ![p] =
            IF pc[p] = "RefreshLock" THEN "RefreshCheck" ELSE "RefreshDelete"]
    /\ UNCHANGED <<now, cfgVars, items, lockVars, onRefreshNeeded,
                   refreshConcurrencyMap, refreshKeys, pushers, invoked,
                   op, locals, ret, ncalls, workerVars, janVars, panicked, histVars>>

\* Mutant of RefreshCheck: the dedup map is not consulted.
RefreshCheckNoDedup(p) ==
    /\ Running
    /\ pc[p] = "RefreshCheck"
    /\ refreshConcurrencyMutex' = NoProc
    /\ refreshConcurrencyMap' = refreshConcurrencyMap \cup {K(p)}
    /\ pushers' = [pushers EXCEPT ![K(p)] = @ + 1]
    /\ pc' = [pc EXCEPT ![p] =
            IF op[p].name = "Get" THEN "RUnlock" ELSE "RefreshLock2"]
    /\ UNCHANGED <<now, cfgVars, items, lockVars, onRefreshNeeded, refreshKeys,
                   invoked, op, locals, ret, ncalls, workerVars, janVars, panicked,
                   histVars>>

\* Mutant of RefreshCheck: the caller itself sends the key on the channel.
RefreshCheckSendsInline(p) ==
    LET isGet == op[p].name = "Get"
        after == IF isGet THEN "RUnlock" ELSE AfterGet(op[p].name, TRUE)
    IN  /\ Running
        /\ pc[p] = "RefreshCheck"
        /\ refreshConcurrencyMutex' = NoProc
        /\ IF K(p) \notin refreshConcurrencyMap
           THEN /\ Len(refreshKeys) < RefreshQueueCap
                /\ refreshKeys' = Append(refreshKeys, K(p))
                /\ refreshConcurrencyMap' = refreshConcurrencyMap \cup {K(p)}
                /\ invoked' = [invoked EXCEPT ![K(p)] = 0]
                /\ pc' = [pc EXCEPT ![p] = IF isGet THEN after ELSE "RefreshLock2"]
           ELSE /\ UNCHANGED <<refreshConcurrencyMap, refreshKeys, invoked>>
                /\ pc' = [pc EXCEPT ![p] = after]
        /\ UNCHANGED <<now, cfgVars, items, lockVars, onRefreshNeeded, pushers,
                       op, locals, ret, ncalls, workerVars, janVars, panicked, histVars>>

\* The test of the dedup map: a key not in it is inserted and a goroutine is
\* started to push it; Get then goes on to RUnlock, get to its second Lock.
RefreshCheck(p) ==
    LET isGet == op[p].name = "Get"
        after == IF isGet THEN "RUnlock" ELSE AfterGet(op[p].name, TRUE)
    IN  /\ Running
        /\ pc[p] = "RefreshCheck"
        /\ refreshConcurrencyMutex' = NoProc
        /\ IF K(p) \notin refreshConcurrencyMap
           THEN /\ refreshConcurrencyMap' = refreshConcurrencyMap \cup {K(p)}
                /\ pushers' = [pushers EXCEPT ![K(p)] = @ + 1]
                /\ invoked' = [invoked EXCEPT ![K(p)] = 0]
                /\ pc' = [pc EXCEPT ![p] = IF isGet THEN after ELSE "RefreshLock2"]
           ELSE /\ UNCHANGED <<refreshConcurrencyMap, pushers, invoked>>
                /\ pc' = [pc EXCEPT ![p] = after]
        /\ UNCHANGED <<now, cfgVars, items, lockVars, onRefreshNeeded, refreshKeys,
                       op, locals, ret, ncalls, workerVars, janVars, panicked, histVars>>

\* get only: delete(c.refreshConcurrencyMap, k) right after the dispatch.
RefreshDelete(p) ==
    /\ Running
    /\ pc[p] = "RefreshDelete"
    /\ refreshConcurrencyMap' = refreshConcurrencyMap \ {K(p)}
    /\ refreshConcurrencyMutex' = NoProc
    /\ pc' = [pc EXCEPT ![p] = AfterGet(op[p].name, TRUE)]
    /\ UNCHANGED <<now, cfgVars, items, lockVars, onRefreshNeeded, refreshKeys,
                   pushers, invoked, op, locals, ret, ncalls, workerVars, janVars,
                   panicked, histVars>>

\* go func() { c.refreshKeys <- k }(): the send waits for room in the queue.
Push(k) ==
    /\ Running
    /\ pushers[k] > 0
    /\ Len(refreshKeys) < RefreshQueueCap
    /\ refreshKeys' = Append(refreshKeys, k)
    /\ pushers' = [pushers EXCEPT ![k] = @ - 1]
    /\ UNCHANGED <<now, cfgVars, items, lockVars, onRefreshNeeded,
                   refreshConcurrencyMap, refreshConcurrencyMutex, invoked,
                   procVars, workerVars, janVars, panicked, histVars>>

(* --------------------------------------------------------- refreshWorker *)
\* for k := range jobs
WorkerRecv(w) ==
    /\ Running
    /\ w <= refreshWorkerCount
    /\ wpc[w] = "recv"
    /\ refreshKeys # <<>>
    /\ wkey' = [wkey EXCEPT ![w] = Head(refreshKeys)]
    /\ refreshKeys' = Tail(refreshKeys)
    /\ wpc' = [wpc EXCEPT ![w] = "call"]
    /\ UNCHANGED <<now, cfgVars, items, lockVars, onRefreshNeeded,
                   refreshConcurrencyMap, refreshConcurrencyMutex, pushers, invoked,
                   procVars, wlocals, janVars, panicked, histVars>>

\* Mutant of WorkerCall: the worker goes on without calling the callback.
WorkerCallSkipsCallback(w) ==
    /\ Running
    /\ wpc[w] = "call"
    /\ wpc' = [wpc EXCEPT ![w] = "Lock"]
    /\ UNCHANGED <<now, cfgVars, items, lockVars, onRefreshNeeded, refreshVars,
                   procVars, wkey, wlocals, janVars, panicked, histVars>>

\* Mutant of WorkerCall: the worker takes the storage lock for the callback.
WorkerCallHoldingLock(w) ==
    /\ Running
    /\ wpc[w] = "call"
    /\ CanLock
    /\ writer' = Worker(w)
    /\ IF onRefreshNeeded = "nil"
       THEN /\ panicked' = TRUE
            /\ UNCHANGED <<invoked, wpc>>
       ELSE /\ invoked' = [invoked EXCEPT ![wkey[w]] = @ + 1]
            /\ wpc' = [wpc EXCEPT ![w] =
                    IF onRefreshNeeded = "g" THEN "Set" ELSE "running"]
            /\ UNCHANGED panicked
    /\ UNCHANGED <<now, cfgVars, items, readers, onRefreshNeeded,
                   refreshConcurrencyMap, refreshConcurrencyMutex, refreshKeys,
                   pushers, procVars, wkey, wlocals, janVars, histVars>>

\* c.onRefreshNeeded(k): calling a nil func panics.  The callback f does not
\* touch the cache; the callback g calls c.Set(k, Refreshed, NoExpiration, 1),
\* the callback r calls c.Get(k), and the callback h never returns.
WorkerCall(w) ==
    /\ Running
    /\ wpc[w] = "call"
    /\ IF onRefreshNeeded = "nil"
       THEN /\ panicked' = TRUE
            /\ UNCHANGED <<invoked, wpc>>
       ELSE /\ invoked' = [invoked EXCEPT ![wkey[w]] = @ + 1]
            /\ wpc' = [wpc EXCEPT ![w] =
                    CASE onRefreshNeeded = "g" -> "Set"
                      [] onRefreshNeeded = "r" -> "GetRLock"
                      [] onRefreshNeeded = "h" -> "stuck"
                      [] OTHER -> "running"]
            /\ UNCHANGED panicked
    /\ UNCHANGED <<now, cfgVars, items, lockVars, onRefreshNeeded,
                   refreshConcurrencyMap, refreshConcurrencyMutex, refreshKeys,
                   pushers, procVars, wkey, wlocals, janVars, histVars>>

\* The callback g: c.Set(k, Refreshed, NoExpiration, 1), run by the worker.
Refreshed == Obj("string", 9)

\* Set computes e and erd before it asks for the lock.
CallbackSet(w) ==
    /\ Running
    /\ wpc[w] = "Set"
    /\ wlocals' = [wlocals EXCEPT ![w] =
            Locals(ExpirationOf(NoExpiration, defaultExpiration, now),
                   RefreshDeadlineOf(1, now), ZeroItem, FALSE, now)]
    /\ wpc' = [wpc EXCEPT ![w] = "SetLock"]
    /\ UNCHANGED <<now, cfgVars, items, lockVars, onRefreshNeeded, refreshVars,
                   procVars, wkey, janVars, panicked, histVars>>

\* c.storage.Lock()
CallbackLock(w) ==
    /\ Running
    /\ wpc[w] = "SetLock"
    /\ CanLock
    /\ writer' = Worker(w)
    /\ wpc' = [wpc EXCEPT ![w] = "SetStore"]
    /\ UNCHANGED <<now, cfgVars, items, readers, onRefreshNeeded, refreshVars,
                   procVars, wkey, wlocals, janVars, panicked, histVars>>

\* c.storage.Set(k, item)
CallbackStore(w) ==
    /\ Running
    /\ wpc[w] = "SetStore"
    /\ items' = storageSet(items, wkey[w],
            Item(Refreshed, wlocals[w].e, wlocals[w].erd))
    /\ Wrote(wkey[w], Refreshed, NoExpiration, wlocals[w].t)
    /\ wpc' = [wpc EXCEPT ![w] = "SetUnlock"]
    /\ UNCHANGED <<now, cfgVars, lockVars, onRefreshNeeded, refreshVars,
                   procVars, wkey, wlocals, janVars, panicked>>

\* c.storage.Unlock(); Set and then the callback return.
CallbackUnlock(w) ==
    /\ Running
    /\ wpc[w] = "SetUnlock"
    /\ writer' = NoProc
    /\ wlocals' = [wlocals EXCEPT ![w] = NoLocals]
    /\ wpc' = [wpc EXCEPT ![w] = "Lock"]
    /\ UNCHANGED <<now, cfgVars, items, readers, onRefreshNeeded, refreshVars,
                   procVars, wkey, janVars, panicked, histVars>>

\* The callback r: c.Get(k), run by the worker, which reads as reader
\* NumCallers + w: RLock, the lookup and the two tests, the dispatch under
\* the dedup lock when the entry is stale, RUnlock; then the callback returns.
CallbackGet(w) ==
    LET item == storageGet(items, wkey[w])
        found == storageFound(items, wkey[w]) /\ Live(item, now)
    IN  /\ Running
        /\ \/ /\ wpc[w] = "GetRLock"
              /\ CanRLock
              /\ readers' = readers \cup {NumCallers + w}
              /\ wpc' = [wpc EXCEPT ![w] = "GetRead"]
              /\ UNCHANGED <<refreshConcurrencyMap, refreshConcurrencyMutex,
                             pushers, invoked>>
           \/ /\ wpc[w] = "GetRead"
              /\ wpc' = [wpc EXCEPT ![w] =
                      IF found /\ Stale(item, now) THEN "GetRefreshLock"
                      ELSE "GetRUnlock"]
              /\ UNCHANGED <<readers, refreshConcurrencyMap,
                             refreshConcurrencyMutex, pushers, invoked>>
           \/ /\ wpc[w] = "GetRefreshLock"
              /\ refreshConcurrencyMutex = NoProc
              /\ refreshConcurrencyMutex' = Worker(w)
              /\ wpc' = [wpc EXCEPT ![w] = "GetRefreshCheck"]
              /\ UNCHANGED <<readers, refreshConcurrencyMap, pushers, invoked>>
           \/ /\ wpc[w] = "GetRefreshCheck"
              /\ refreshConcurrencyMutex' = NoProc
              /\ IF wkey[w] \notin refreshConcurrencyMap
                 THEN /\ refreshConcurrencyMap' = refreshConcurrencyMap \cup {wkey[w]}
                      /\ pushers' = [pushers EXCEPT ![wkey[w]] = @ + 1]
                      /\ invoked' = [invoked EXCEPT ![wkey[w]] = 0]
                 ELSE UNCHANGED <<refreshConcurrencyMap, pushers, invoked>>
              /\ wpc' = [wpc EXCEPT ![w] = "GetRUnlock"]
              /\ UNCHANGED readers
           \/ /\ wpc[w] = "GetRUnlock"
              /\ readers' = readers \ {NumCallers + w}
              /\ wpc' = [wpc EXCEPT ![w] = "Lock"]
              /\ UNCHANGED <<refreshConcurrencyMap, refreshConcurrencyMutex,
                             pushers, invoked>>
        /\ UNCHANGED <<now, cfgVars, items, writer, onRefreshNeeded, refreshKeys,
                       procVars, wkey, wlocals, janVars, panicked, histVars>>

\* The callback returns.
WorkerReturn(w) ==
    /\ Running
    /\ wpc[w] = "running"
    /\ wpc' = [wpc EXCEPT ![w] = "Lock"]
    /\ UNCHANGED <<now, cfgVars, items, lockVars, onRefreshNeeded, refreshVars,
                   procVars, wkey, wlocals, janVars, panicked, histVars>>

\* c.refreshConcurrencyMutex.Lock()
WorkerLock(w) ==
    /\ Running
    /\ wpc[w] = "Lock"
    /\ refreshConcurrencyMutex = NoProc
    /\ refreshConcurrencyMutex' = Worker(w)
    /\ wpc' = [wpc EXCEPT ![w] = "delete"]
    /\ UNCHANGED <<now, cfgVars, items, lockVars, onRefreshNeeded,
                   refreshConcurrencyMap, refreshKeys, pushers, invoked,
                   procVars, wkey, wlocals, janVars, panicked, histVars>>

\* Mutant of WorkerDelete: the worker also clears the entry's refresh deadline.
WorkerDeleteResetsDeadline(w) ==
    /\ Running
    /\ wpc[w] = "delete"
    /\ refreshConcurrencyMap' = refreshConcurrencyMap \ {wkey[w]}
    /\ refreshConcurrencyMutex' = NoProc
    /\ wpc' = [wpc EXCEPT ![w] = "recv"]
    /\ wkey' = [wkey EXCEPT ![w] = "k1"]
    /\ items' = IF storageFound(items, wkey[w])
                THEN [items EXCEPT ![wkey[w]].RefreshDeadline = 0]
                ELSE items
    /\ UNCHANGED <<now, cfgVars, lockVars, onRefreshNeeded, refreshKeys,
                   pushers, invoked, procVars, wlocals, janVars, panicked, histVars>>

\* delete(c.refreshConcurrencyMap, k) and Unlock
WorkerDelete(w) ==
    /\ Running
    /\ wpc[w] = "delete"
    /\ refreshConcurrencyMap' = refreshConcurrencyMap \ {wkey[w]}
    /\ refreshConcurrencyMutex' = NoProc
    /\ wpc' = [wpc EXCEPT ![w] = "recv"]
    /\ wkey' = [wkey EXCEPT ![w] = "k1"]
    /\ UNCHANGED <<now, cfgVars, items, lockVars, onRefreshNeeded, refreshKeys,
                   pushers, invoked, procVars, wlocals, janVars, panicked, histVars>>

(* --------------------------------------------------------------- janitor *)
\* The ticker fires: DeleteExpired reads the clock, then asks for the lock.
JanitorTick ==
    /\ Running
    /\ janitorOn
    /\ jpc = "wait"
    /\ jnow' = now
    /\ jpc' = "Lock"
    /\ UNCHANGED <<now, cfgVars, items, lockVars, onRefreshNeeded, refreshVars,
                   procVars, workerVars, panicked, histVars>>

JanitorLock ==
    /\ Running
    /\ jpc = "Lock"
    /\ CanLock
    /\ writer' = Janitor
    /\ jpc' = "Sweep"
    /\ UNCHANGED <<now, cfgVars, items, readers, onRefreshNeeded, refreshVars,
                   procVars, workerVars, jnow, panicked, histVars>>

\* Mutant of JanitorSweep: the sweep leaves the map as it is.
JanitorSweepNothing ==
    /\ Running
    /\ jpc = "Sweep"
    /\ jpc' = "Unlock"
    /\ jnow' = 0
    /\ UNCHANGED <<now, cfgVars, items, lockVars, onRefreshNeeded, refreshVars,
                   procVars, workerVars, panicked, histVars>>

JanitorSweep ==
    /\ Running
    /\ jpc = "Sweep"
    /\ items' = DeleteExpired(items, jnow)
    /\ jpc' = "Unlock"
    /\ jnow' = 0
    /\ UNCHANGED <<now, cfgVars, lockVars, onRefreshNeeded, refreshVars,
                   procVars, workerVars, panicked, histVars>>

JanitorUnlock ==
    /\ Running
    /\ jpc = "Unlock"
    /\ writer' = NoProc
    /\ jpc' = "wait"
    /\ UNCHANGED <<now, cfgVars, items, readers, onRefreshNeeded, refreshVars,
                   procVars, workerVars, jnow, panicked, histVars>>

(* ------------------------------------------------------------ arithmetic *)
Typed(name) == name \in {"IncrementTyped", "DecrementTyped"}
Adds(name) == name \in {"Increment", "IncrementFloat", "IncrementTyped"}

\* Mutant of TypeMatches: a typed variant accepts any numeric type.
TypeMatchesAnyNumber(name, ty, obj) == obj.type \in IntTypes \cup FloatTypes

\* The type switch of Increment/Decrement and of IncrementFloat/
\* DecrementFloat, the type assertion of a typed variant (ty is the type the
\* variant is for).
TypeMatches(name, ty, obj) ==
    IF Typed(name) THEN obj.type = ty
    ELSE IF name \in {"IncrementFloat", "DecrementFloat"} THEN obj.type \in FloatTypes
    ELSE obj.type \in IntTypes \cup FloatTypes

\* The new value: v.Object.(T) + T(n), or - T(n).
Arith(name, obj, n) ==
    Obj(obj.type, IF Adds(name) THEN AddN(obj.type, obj.val, n)
                  ELSE SubN(obj.type, obj.val, n))

\* Mutant of ArithValue: a typed variant returns 0, as it does on failure.
ArithValueZero(name, ty, obj) == IF Typed(name) THEN Obj(obj.type, 0) ELSE Nil

\* What an arithmetic call returns besides its error.
ArithValue(name, ty, obj) == IF Typed(name) THEN obj ELSE Nil

\* v, found := c.storage.Get(k), the expiry test, the type test, the sum.
Load(p) ==
    LET v == storageGet(items, K(p))
        found == storageFound(items, K(p))
        name == op[p].name
        zero == ArithValue(name, op[p].ty, Obj(op[p].ty, 0))
    IN  /\ Running
        /\ pc[p] = "Load"
        /\ IF ~found \/ Expired(v, now)
           THEN /\ ret' = [ret EXCEPT ![p] = Ret(zero, FALSE, "NotFound", now)]
                /\ pc' = [pc EXCEPT ![p] = "Unlock"]
                /\ UNCHANGED locals
           ELSE IF ~TypeMatches(name, op[p].ty, v.Object)
           THEN /\ ret' = [ret EXCEPT ![p] = Ret(zero, TRUE, "TypeMismatch", now)]
                /\ pc' = [pc EXCEPT ![p] = "Unlock"]
                /\ UNCHANGED locals
           ELSE /\ locals' = [locals EXCEPT ![p] = Locals(0, 0,
                        [v EXCEPT !.Object = Arith(name, v.Object, op[p].n)],
                        TRUE, now)]
                /\ ret' = [ret EXCEPT ![p] = Ret(Nil, TRUE, "pending", now)]
                /\ pc' = [pc EXCEPT ![p] = "StoreBack"]
        /\ UNCHANGED <<now, cfgVars, items, lockVars, onRefreshNeeded, refreshVars,
                       op, ncalls, workerVars, janVars, panicked, histVars>>

\* Mutant of StoreBack: the new value is stored as a fresh entry.
StoreBackFresh(p) ==
    /\ Running
    /\ pc[p] = "StoreBack"
    /\ items' = storageSet(items, K(p), Item(locals[p].v.Object, 0, 0))
    /\ ret' = [ret EXCEPT ![p] =
            Ret(ArithValue(op[p].name, op[p].ty, locals[p].v.Object), TRUE, "", @.at)]
    /\ pc' = [pc EXCEPT ![p] = "Unlock"]
    /\ Rewrote(K(p), IF Adds(op[p].name) THEN op[p].n ELSE 0 - op[p].n)
    /\ UNCHANGED <<now, cfgVars, lockVars, onRefreshNeeded, refreshVars,
                   op, locals, ncalls, workerVars, janVars, panicked>>

\* c.storage.Set(k, v)
StoreBack(p) ==
    /\ Running
    /\ pc[p] = "StoreBack"
    /\ items' = storageSet(items, K(p), locals[p].v)
    /\ ret' = [ret EXCEPT ![p] =
            Ret(ArithValue(op[p].name, op[p].ty, locals[p].v.Object), TRUE, "", @.at)]
    /\ pc' = [pc EXCEPT ![p] = "Unlock"]
    /\ Rewrote(K(p), IF Adds(op[p].name) THEN op[p].n ELSE 0 - op[p].n)
    /\ UNCHANGED <<now, cfgVars, lockVars, onRefreshNeeded, refreshVars,
                   op, locals, ncalls, workerVars, janVars, panicked>>

(* ------------------------------------- Delete, Flush, OnRefreshNeeded *)
\* Mutant of Del: deleting a key also takes it out of the dedup set.
DelCancelsRefresh(p) ==
    /\ Running
    /\ pc[p] = "Del"
    /\ items' = storageDel(items, K(p))
    /\ refreshConcurrencyMap' = refreshConcurrencyMap \ {K(p)}
    /\ lastWrite' = storageDel(lastWrite, K(p))
    /\ removedBy' = IF K(p) \in DOMAIN lastWrite
                    THEN [removedBy EXCEPT ![K(p)] = "Delete"] ELSE removedBy
    /\ ret' = [ret EXCEPT ![p] = Ret(Nil, FALSE, "", now)]
    /\ pc' = [pc EXCEPT ![p] = "Unlock"]
    /\ UNCHANGED <<now, cfgVars, lockVars, onRefreshNeeded, refreshConcurrencyMutex,
                   refreshKeys, pushers, invoked,
                   op, locals, ncalls, workerVars, janVars, panicked, everWritten>>

\* c.delete(k)
Del(p) ==
    /\ Running
    /\ pc[p] = "Del"
    /\ items' = storageDel(items, K(p))
    /\ lastWrite' = storageDel(lastWrite, K(p))
    /\ removedBy' = IF K(p) \in DOMAIN lastWrite
                    THEN [removedBy EXCEPT ![K(p)] = "Delete"] ELSE removedBy
    /\ ret' = [ret EXCEPT ![p] = Ret(Nil, FALSE, "", now)]
    /\ pc' = [pc EXCEPT ![p] = "Unlock"]
    /\ UNCHANGED <<now, cfgVars, lockVars, onRefreshNeeded, refreshVars,
                   op, locals, ncalls, workerVars, janVars, panicked, everWritten>>

\* Mutant of FlushItems: the map is left as it is.
FlushItemsKeepsEntries(p) ==
    /\ Running
    /\ pc[p] = "FlushItems"
    /\ lastWrite' = EmptyMap
    /\ removedBy' = [k \in Keys |->
                        IF k \in DOMAIN lastWrite THEN "Flush" ELSE removedBy[k]]
    /\ ret' = [ret EXCEPT ![p] = Ret(Nil, FALSE, "", now)]
    /\ pc' = [pc EXCEPT ![p] = "Unlock"]
    /\ UNCHANGED <<now, cfgVars, items, lockVars, onRefreshNeeded, refreshVars,
                   op, locals, ncalls, workerVars, janVars, panicked, everWritten>>

\* memoryStorage.Flush: s.items = map[string]Item{}
FlushItems(p) ==
    /\ Running
    /\ pc[p] = "FlushItems"
    /\ items' = EmptyMap
    /\ lastWrite' = EmptyMap
    /\ removedBy' = [k \in Keys |->
                        IF k \in DOMAIN lastWrite THEN "Flush" ELSE removedBy[k]]
    /\ ret' = [ret EXCEPT ![p] = Ret(Nil, FALSE, "", now)]
    /\ pc' = [pc EXCEPT ![p] = "Unlock"]
    /\ UNCHANGED <<now, cfgVars, lockVars, onRefreshNeeded, refreshVars,
                   op, locals, ncalls, workerVars, janVars, panicked, everWritten>>

\* c.onRefreshNeeded = f; the call's ty names the function f.
SetCallback(p) ==
    /\ Running
    /\ pc[p] = "SetCallback"
    /\ onRefreshNeeded' = op[p].ty
    /\ ret' = [ret EXCEPT ![p] = Ret(Nil, FALSE, "", now)]
    /\ pc' = [pc EXCEPT ![p] = "Unlock"]
    /\ UNCHANGED <<now, cfgVars, items, lockVars, refreshVars,
                   op, locals, ncalls, workerVars, janVars, panicked, histVars>>

(* ----------------------------------------------------------------- clock *)
Tick ==
    /\ Running
    /\ now < MaxTime
    /\ now' = now + 1
    /\ UNCHANGED <<cfgVars, items, lockVars, onRefreshNeeded, refreshVars,
                   procVars, workerVars, janVars, panicked, histVars>>

(* ------------------------------------------------------- initial states *)
\* newCache and New: the fields of a cache over a MemoryStorage(), but for the
\* clock, the stored entries and the content of the refresh queue.
New(de, janitor, workers) ==
    /\ configured = de
    /\ defaultExpiration = NormalizeDefault(de)
    /\ refreshWorkerCount = workers
    /\ janitorOn = janitor
    /\ writer = NoProc
    /\ readers = {}
    /\ refreshConcurrencyMap = {}
    /\ refreshConcurrencyMutex = NoProc
    /\ pushers = [k \in Keys |-> 0]
    /\ pc = [p \in Procs |-> "idle"]
    /\ op = [p \in Procs |-> NoOp]
    /\ locals = [p \in Procs |-> NoLocals]
    /\ ret = [p \in Procs |-> NoRet]
    /\ ncalls = [p \in Procs |-> 0]
    /\ wpc = [w \in Workers |-> "recv"]
    /\ wkey = [w \in Workers |-> "k1"]
    /\ wlocals = [w \in Workers |-> NoLocals]
    /\ jpc = "wait"
    /\ jnow = 0
    /\ panicked = FALSE
    /\ invoked = [k \in Keys |-> 0]

\* Nothing was stored or queued, no callback was registered, the clock is at 0.
Untouched ==
    /\ now = 0
    /\ refreshKeys = <<>>
    /\ items = EmptyMap
    /\ lastWrite = EmptyMap
    /\ everWritten = {}
    /\ removedBy = [k \in Keys |-> "no"]
    /\ onRefreshNeeded = "nil"

(* ------------------------------------------- the sequential specification *)
\* One caller makes up to MaxCalls calls while the clock and the janitor run.
\* No entry is given a refresh deadline, so nothing is dispatched.
Durations == {NoExpiration, DefaultExpiration} \cup (1..MaxDuration)
Values == {Obj("int8", 127), Obj("string", 1)}

Reads == {Op(name, k, Nil, 0, 0, 0, "nil") : name \in {"Get", "Delete"}, k \in Keys}
            \cup {Op("Flush", "k1", Nil, 0, 0, 0, "nil")}

Arithmetic ==
    {Op(name, k, Nil, 0, 0, 1, "nil") :
        name \in {"Increment", "Decrement", "IncrementFloat", "DecrementFloat"},
        k \in Keys}
    \cup {Op(name, k, Nil, 0, 0, 1, ty) :
            name \in {"IncrementTyped", "DecrementTyped"}, k \in Keys,
            ty \in {"int8", "uint8"}}

Calls ==
    {Op(name, k, x, d, NoRefreshDeadline, 0, "nil") :
        name \in WriteNames, k \in Keys, x \in Values, d \in Durations}
    \cup Reads \cup Arithmetic

Call(p) ==
    /\ ncalls[p] < MaxCalls
    /\ \E o \in Calls : Begin(p, o)

Init ==
    \E de \in {0, 1} : New(de, TRUE, 0) /\ Untouched /\ oneShot = FALSE

Next ==
    \/ Call(1)
    \/ Lock(1) \/ Unlock(1) \/ RLock(1) \/ RUnlock(1)
    \/ Store(1) \/ Get(1) \/ get(1) \/ set(1)
    \/ Load(1) \/ StoreBack(1) \/ Del(1) \/ FlushItems(1)
    \/ JanitorTick \/ JanitorLock \/ JanitorSweep \/ JanitorUnlock
    \/ Tick

Spec == Init /\ [][Next]_vars

(* ------------------------------------------- the arithmetic specification *)
\* One caller sets integer values at the edges of their types' ranges under
\* k1, increments and decrements them by amounts inside and outside those
\* ranges, and reads them back.  No clock, no janitor, no refresh.
ArithValues ==
    {Obj("int8", v) : v \in {-128, -1, 127}}
    \cup {Obj("uint8", v) : v \in {0, 255}}
    \cup {Obj("int16", v) : v \in {-32768, 32767}}
    \cup {Obj("uint16", v) : v \in {0, 65535}}
ArithAmounts == {-70000, -32768, -129, -1, 1, 128, 256, 70000}

CallsArith ==
    {Op("Set", "k1", x, NoExpiration, NoRefreshDeadline, 0, "nil") : x \in ArithValues}
    \cup {Op(name, "k1", Nil, 0, 0, n, "nil") :
            name \in {"Increment", "Decrement"}, n \in ArithAmounts}
    \cup {Op("Get", "k1", Nil, 0, 0, 0, "nil")}

CallArith(p) ==
    /\ ncalls[p] < MaxCalls
    /\ \E o \in CallsArith : Begin(p, o)

InitArith == New(0, FALSE, 0) /\ Untouched /\ oneShot = FALSE

NextArith ==
    \/ CallArith(1)
    \/ Lock(1) \/ Unlock(1) \/ RLock(1) \/ RUnlock(1)
    \/ Store(1) \/ Get(1) \/ Load(1) \/ StoreBack(1)

SpecArith == InitArith /\ [][NextArith]_vars

(* ------------------------------------------- the concurrent specification *)
\* NumCallers goroutines make one call each on k1, concurrently, and keep
\* what it returned, while the clock, the push goroutines and the refresh
\* workers run.  The cache starts as OnRefreshNeeded(f) and at most one
\* Set("k1", x, d, rd) at clock 0 leave it.
StoredAtZero(x, d, rd) ==
    /\ items = storageSet(EmptyMap, "k1",
            Item(x, ExpirationOf(d, defaultExpiration, 0), RefreshDeadlineOf(rd, 0)))
    /\ lastWrite = storageSet(EmptyMap, "k1",
            [x |-> x, t |-> 0,
             d |-> IF d = DefaultExpiration THEN defaultExpiration ELSE d,
             arith |-> 0, sum |-> 0])
    /\ everWritten = {"k1"}
    /\ removedBy = [k \in Keys |-> "no"]

InitConc ==
    /\ New(0, FALSE, MaxWorkers)
    /\ oneShot = TRUE
    /\ now = 0
    /\ refreshKeys = <<>>
    /\ onRefreshNeeded = "f"
    /\ \/ /\ items = EmptyMap /\ lastWrite = EmptyMap /\ everWritten = {}
          /\ removedBy = [k \in Keys |-> "no"]
       \/ \E x \in Values, d \in {NoExpiration, MaxDuration},
             rd \in {NoRefreshDeadline, 1} : StoredAtZero(x, d, rd)

CallsConc ==
    {Op("Set", "k1", Obj("string", 2), d, rd, 0, "nil") :
        d \in {NoExpiration, 1}, rd \in {NoRefreshDeadline, 1}}
    \cup {Op("Add", "k1", Obj("string", i), d, NoRefreshDeadline, 0, "nil") :
            i \in {2, 3}, d \in {NoExpiration, 1}}
    \cup {Op("Replace", "k1", Obj("string", 2), NoExpiration, NoRefreshDeadline, 0, "nil")}
    \cup {Op(name, "k1", Nil, 0, 0, 0, "nil") : name \in {"Get", "Delete"}}
    \cup {Op(name, "k1", Nil, 0, 0, 1, "nil") : name \in {"Increment", "Decrement"}}
    \cup {Op("IncrementTyped", "k1", Nil, 0, 0, n, "int8") : n \in {1, 2}}
    \cup {Op("DecrementTyped", "k1", Nil, 0, 0, 3, "int8")}

CallConc(p) == \E o \in CallsConc : Begin(p, o)

NextConc ==
    \/ \E p \in Procs :
        \/ CallConc(p)
        \/ Lock(p) \/ Unlock(p) \/ RLock(p) \/ RUnlock(p)
        \/ Store(p) \/ Get(p) \/ get(p) \/ set(p)
        \/ RefreshLock(p) \/ RefreshCheck(p) \/ RefreshDelete(p)
        \/ Load(p) \/ StoreBack(p) \/ Del(p)
    \/ \E k \in Keys : Push(k)
    \/ \E w \in Workers :
        WorkerRecv(w) \/ WorkerCall(w) \/ WorkerReturn(w) \/ WorkerLock(w)
        \/ WorkerDelete(w)
    \/ Tick

SpecConc == InitConc /\ [][NextConc]_vars

(* --------------------------------------------- the refresh specification *)
\* Callers make up to MaxCalls Gets each of k1, which was Set at clock 0 with
\* a refresh deadline of 1, while the clock, the push goroutines and the
\* workers run.  The cache has its workers and an empty queue, or it has no
\* worker and a queue that is empty or holds RefreshQueueCap requests that
\* calls on other keys have left there.
FullQueue == [i \in 1..RefreshQueueCap |-> "k2"]

InitRefresh ==
    /\ \E workers \in {0, MaxWorkers} :
            /\ New(0, FALSE, workers)
            /\ refreshKeys \in (IF workers = 0 THEN {<<>>, FullQueue} ELSE {<<>>})
    /\ oneShot = FALSE
    /\ now = 0
    /\ onRefreshNeeded = "f"
    /\ \E x \in Values, d \in {NoExpiration, MaxDuration} : StoredAtZero(x, d, 1)

CallRefresh(p) ==
    /\ ncalls[p] < MaxCalls
    /\ Begin(p, Op("Get", "k1", Nil, 0, 0, 0, "nil"))

\* The steps of a Get.
GetStep(p) ==
    RLock(p) \/ Get(p) \/ RefreshLock(p) \/ RefreshCheck(p) \/ RUnlock(p)

NextRefresh ==
    \/ \E p \in Procs : CallRefresh(p) \/ GetStep(p)
    \/ \E k \in Keys : Push(k)
    \/ \E w \in Workers :
        WorkerRecv(w) \/ WorkerCall(w) \/ WorkerReturn(w) \/ WorkerLock(w)
        \/ WorkerDelete(w)
    \/ Tick

\* A goroutine that can run does run, and sync.Mutex hands the lock to a
\* waiter that keeps asking (starvation mode): every caller takes its steps
\* and a worker holding refreshConcurrencyMutex releases it.  Nothing is
\* assumed of the pushes, of the workers' receives or of the callbacks: the
\* queue may stay full and a callback may never return.
SpecRefreshLive ==
    /\ InitRefresh /\ [][NextRefresh]_vars
    /\ \A p \in Procs : WF_vars(GetStep(p)) /\ SF_vars(RefreshLock(p))
    /\ \A w \in Workers : WF_vars(WorkerDelete(w))

\* The refresh pipeline runs as well: a pending push is accepted when the
\* queue has room, a worker receives when the queue holds a key, calls the
\* callback, and the callback returns.
SpecRefreshFair ==
    /\ SpecRefreshLive
    /\ \A k \in Keys : WF_vars(Push(k))
    /\ \A w \in Workers :
            /\ WF_vars(WorkerRecv(w)) /\ WF_vars(WorkerCall(w))
            /\ WF_vars(WorkerReturn(w)) /\ SF_vars(WorkerLock(w))

\* The backlog: callers make one Get each of k1, and the queue is empty or
\* holds RefreshQueueCap requests that calls on other keys have left there,
\* so that the push of k1 has to wait.  The cache has its workers, and all
\* the goroutines take their steps as in SpecRefreshFair.
InitBacklog ==
    /\ New(0, FALSE, MaxWorkers)
    /\ refreshKeys \in {<<>>, FullQueue}
    /\ oneShot = TRUE
    /\ now = 0
    /\ onRefreshNeeded = "f"
    /\ StoredAtZero(Obj("string", 1), NoExpiration, 1)

SpecBacklog ==
    /\ InitBacklog /\ [][NextRefresh]_vars
    /\ \A p \in Procs : WF_vars(GetStep(p)) /\ SF_vars(RefreshLock(p))
    /\ \A k \in Keys : WF_vars(Push(k))
    /\ \A w \in Workers :
            /\ WF_vars(WorkerRecv(w)) /\ WF_vars(WorkerCall(w))
            /\ WF_vars(WorkerReturn(w)) /\ SF_vars(WorkerLock(w))
            /\ WF_vars(WorkerDelete(w))

(* ------------------------------------------ the fine-grained specification *)
\* NumCallers goroutines make one call each on k1, a Set or a Get, and keep
\* what it returned, while the clock runs; Set stores field by field.  The
\* entry Set at clock 0 and the entries the calls store have expirations and
\* refresh deadlines none at all or too far to be reached.
Far == MaxTime + 1
InitialEntry == Item(Obj("string", 1), Far, Far)

InitFine ==
    /\ New(0, FALSE, 0)
    /\ oneShot = TRUE
    /\ now = 0
    /\ refreshKeys = <<>>
    /\ onRefreshNeeded = "f"
    /\ StoredAtZero(Obj("string", 1), Far, Far)

CallsFine ==
    {Op("Set", "k1", Obj("string", i), d, rd, 0, "nil") :
        i \in {2, 3}, d \in {NoExpiration, Far}, rd \in {NoRefreshDeadline, Far}}
    \cup {Op("Get", "k1", Nil, 0, 0, 0, "nil")}

CallFine(p) == \E o \in CallsFine : Begin(p, o)

NextFine ==
    \/ \E p \in Procs :
        \/ CallFine(p)
        \/ Lock(p) \/ StorePart(p) \/ StoreRest(p) \/ Unlock(p)
        \/ RLock(p) \/ Get(p) \/ RUnlock(p)
    \/ Tick

SpecFine == InitFine /\ [][NextFine]_vars

(* ---------------------------------------------- the remote specification *)
\* redisStorage: Lock and Unlock go to the one distributed lock of the
\* storage, RLock and RUnlock do nothing.  The store answers each Get, Set and
\* Del as one command, so the map of the entries stands for it.
\* Mutant of RedisCanLock: Lock does not wait for the holder of the lock.
RedisCanLockAlways == TRUE
\* s.lock.Lock() returns once no caller holds the distributed lock.
RedisCanLock == writer = NoProc

\* c.storage.Lock() on a redisStorage
RedisLock(p) ==
    /\ Running
    /\ pc[p] = "Lock"
    /\ RedisCanLock
    /\ writer' = Caller(p)
    /\ pc' = [pc EXCEPT ![p] = AfterLock(op[p].name)]
    /\ UNCHANGED <<now, cfgVars, items, readers, onRefreshNeeded, refreshVars,
                   op, locals, ret, ncalls, workerVars, janVars, panicked, histVars>>

\* c.storage.Unlock() on a redisStorage, and return
RedisUnlock(p) ==
    /\ Running
    /\ pc[p] = "Unlock"
    /\ writer' = NoProc
    /\ Return(p)
    /\ UNCHANGED <<now, cfgVars, items, readers, onRefreshNeeded, refreshVars,
                   ncalls, workerVars, janVars, panicked, histVars>>

\* c.storage.RLock() on a redisStorage: nothing to do
RedisRLock(p) ==
    /\ Running
    /\ pc[p] = "RLock"
    /\ pc' = [pc EXCEPT ![p] = "Get"]
    /\ UNCHANGED <<now, cfgVars, items, lockVars, onRefreshNeeded, refreshVars,
                   op, locals, ret, ncalls, workerVars, janVars, panicked, histVars>>

\* c.storage.RUnlock() on a redisStorage: nothing to do, and return
RedisRUnlock(p) ==
    /\ Running
    /\ pc[p] = "RUnlock"
    /\ Return(p)
    /\ UNCHANGED <<now, cfgVars, items, lockVars, onRefreshNeeded, refreshVars,
                   ncalls, workerVars, janVars, panicked, histVars>>

\* NumCallers goroutines make one call each on k1 of a cache over a
\* RedisStorage, concurrently, and keep what it returned, while the clock
\* runs.  New starts no janitor for this storage; there are no refresh workers
\* and no entry is given a refresh deadline.
InitRedis ==
    /\ New(0, FALSE, 0)
    /\ oneShot = TRUE
    /\ now = 0
    /\ refreshKeys = <<>>
    /\ onRefreshNeeded = "nil"
    /\ \/ /\ items = EmptyMap /\ lastWrite = EmptyMap /\ everWritten = {}
          /\ removedBy = [k \in Keys |-> "no"]
       \/ \E x \in Values, d \in {NoExpiration, MaxDuration} :
             StoredAtZero(x, d, NoRefreshDeadline)

CallsRedis ==
    {Op(name, "k1", Obj("string", i), d, NoRefreshDeadline, 0, "nil") :
        name \in WriteNames, i \in {2, 3}, d \in {NoExpiration, 1}}
    \cup {Op(name, "k1", Nil, 0, 0, 0, "nil") : name \in {"Get", "Delete"}}
    \cup {Op(name, "k1", Nil, 0, 0, 1, "nil") : name \in {"Increment", "Decrement"}}

CallRedis(p) == \E o \in CallsRedis : Begin(p, o)

NextRedis ==
    \/ \E p \in Procs :
        \/ CallRedis(p)
        \/ RedisLock(p) \/ RedisUnlock(p) \/ RedisRLock(p) \/ RedisRUnlock(p)
        \/ Store(p) \/ Get(p) \/ get(p) \/ set(p)
        \/ Load(p) \/ StoreBack(p) \/ Del(p)
    \/ Tick

SpecRedis == InitRedis /\ [][NextRedis]_vars

(* ------------------------------------------- the timestamp specification *)
\* One caller makes up to MaxCalls calls of Set, Add and Replace on k1 with
\* every kind of duration and refresh deadline, on a cache constructed with
\* every kind of default expiration, while the clock and the push goroutines
\* run.  There are no refresh workers and no janitor.
DefaultsTimes == NoExpiration..MaxDefault
DurationsTimes == NoExpiration..(MaxDefault + 1)
DeadlinesTimes == NoRefreshDeadline..1

InitTimes ==
    \E de \in DefaultsTimes : New(de, FALSE, 0) /\ Untouched /\ oneShot = FALSE

CallsTimes ==
    {Op(name, "k1", Obj("string", 1), d, rd, 0, "nil") :
        name \in WriteNames, d \in DurationsTimes, rd \in DeadlinesTimes}

CallTimes(p) ==
    /\ ncalls[p] < MaxCalls
    /\ \E o \in CallsTimes : Begin(p, o)

NextTimes ==
    \/ CallTimes(1)
    \/ Lock(1) \/ Unlock(1) \/ Store(1) \/ get(1) \/ set(1)
    \/ RefreshLock(1) \/ RefreshCheck(1) \/ RefreshDelete(1)
    \/ \E k \in Keys : Push(k)
    \/ Tick

SpecTimes == InitTimes /\ [][NextTimes]_vars

(* -------------------------------------------- the callback specification *)
\* Callers make up to MaxCalls calls each, Gets of k1 and OnRefreshNeeded(f)
\* or OnRefreshNeeded(g), while the clock, the push goroutines and the
\* workers run.  The cache was constructed with its workers and no callback
\* was registered; k1 was Set at clock 0 with a refresh deadline of 1.
InitCallback ==
    /\ New(0, FALSE, MaxWorkers)
    /\ oneShot = FALSE
    /\ now = 0
    /\ refreshKeys = <<>>
    /\ onRefreshNeeded = "nil"
    /\ StoredAtZero(Obj("string", 1), NoExpiration, 1)

CallsCallback ==
    {Op("Get", "k1", Nil, 0, 0, 0, "nil")}
    \cup {Op("OnRefreshNeeded", "k1", Nil, 0, 0, 0, f) : f \in {"f", "g"}}

CallCallback(p) ==
    /\ ncalls[p] < MaxCalls
    /\ \E o \in CallsCallback : Begin(p, o)

\* The steps of OnRefreshNeeded.
RegisterStep(p) == Lock(p) \/ SetCallback(p) \/ Unlock(p)

\* The steps of the Set the callback g makes.
CallbackStep(w) ==
    CallbackSet(w) \/ CallbackLock(w) \/ CallbackStore(w) \/ CallbackUnlock(w)

NextCallback ==
    \/ \E p \in Procs : CallCallback(p) \/ GetStep(p) \/ RegisterStep(p)
    \/ \E k \in Keys : Push(k)
    \/ \E w \in Workers :
        WorkerRecv(w) \/ WorkerCall(w) \/ WorkerReturn(w) \/ CallbackStep(w)
        \/ WorkerLock(w) \/ WorkerDelete(w)
    \/ Tick

SpecCallback == InitCallback /\ [][NextCallback]_vars

\* A goroutine that can run does run, and the locks are handed to a waiter
\* that keeps asking: the callers, the pushes and the workers take their
\* steps, and a callback that does not touch the cache returns.
SpecCallbackFair ==
    /\ SpecCallback
    /\ \A p \in Procs :
            /\ WF_vars(GetStep(p)) /\ SF_vars(RefreshLock(p))
            /\ WF_vars(RegisterStep(p)) /\ SF_vars(Lock(p))
    /\ \A k \in Keys : WF_vars(Push(k))
    /\ \A w \in Workers :
            /\ WF_vars(WorkerRecv(w)) /\ WF_vars(WorkerCall(w))
            /\ WF_vars(WorkerReturn(w)) /\ SF_vars(WorkerLock(w))
            /\ WF_vars(WorkerDelete(w))
            /\ WF_vars(CallbackStep(w)) /\ SF_vars(CallbackLock(w))

(* ------------------------------------------------ the lock specification *)
\* NumCallers goroutines make one call each on k1 of a cache over a
\* MemoryStorage(), a read or any kind of mutation, while the clock and the
\* janitor run, if New was told to start one.  k1 was Set at clock 0 to an
\* integer that expires.
InitLocks ==
    /\ \E janitor \in BOOLEAN : New(0, janitor, 0)
    /\ oneShot = TRUE
    /\ now = 0
    /\ refreshKeys = <<>>
    /\ onRefreshNeeded = "nil"
    /\ StoredAtZero(Obj("int8", 1), MaxDuration, NoRefreshDeadline)

CallsLocks ==
    {Op(name, "k1", Obj("int8", 2), NoExpiration, NoRefreshDeadline, 0, "nil") :
        name \in WriteNames}
    \cup {Op(name, "k1", Nil, 0, 0, 0, "nil") : name \in {"Get", "Delete", "Flush"}}
    \cup {Op(name, "k1", Nil, 0, 0, 1, "nil") : name \in {"Increment", "Decrement"}}

CallLocks(p) == \E o \in CallsLocks : Begin(p, o)

NextLocks ==
    \/ \E p \in Procs :
        \/ CallLocks(p)
        \/ Lock(p) \/ Unlock(p) \/ RLock(p) \/ RUnlock(p)
        \/ Store(p) \/ Get(p) \/ get(p) \/ set(p)
        \/ Load(p) \/ StoreBack(p) \/ Del(p) \/ FlushItems(p)
    \/ JanitorTick \/ JanitorLock \/ JanitorSweep \/ JanitorUnlock
    \/ Tick

SpecLocks == InitLocks /\ [][NextLocks]_vars

\* A goroutine that can run does run: a call in progress takes its steps, the
\* ticker of the janitor fires and the janitor takes its steps, and
\* sync.RWMutex hands the lock to a waiter that keeps asking.
SpecLocksFair ==
    /\ SpecLocks
    /\ \A p \in Procs :
            /\ WF_vars(Unlock(p) \/ RLock(p) \/ RUnlock(p) \/ Store(p) \/ Get(p)
                        \/ get(p) \/ set(p) \/ Load(p) \/ StoreBack(p) \/ Del(p)
                        \/ FlushItems(p))
            /\ SF_vars(Lock(p))
    /\ WF_vars(JanitorTick \/ JanitorSweep \/ JanitorUnlock)
    /\ SF_vars(JanitorLock)

(* ---------------------------------------- the far-expiration specification *)
\* One caller makes up to MaxCalls calls on k1 of a cache with a janitor:
\* Set of an integer with a duration and a refresh deadline that are absent,
\* short or the longest a time.Duration holds, Get and Increment, while the
\* clock and the janitor run.  There are no refresh workers.
InitStamps == New(0, TRUE, 0) /\ Untouched /\ oneShot = FALSE

CallsStamps ==
    {Op("Set", "k1", Obj("int8", 1), d, rd, 0, "nil") :
        d \in {NoExpiration, MaxDuration, Pow2(StampBits - 1) - 1},
        rd \in {NoRefreshDeadline, Pow2(StampBits - 1) - 1}}
    \cup {Op("Get", "k1", Nil, 0, 0, 0, "nil"),
          Op("Increment", "k1", Nil, 0, 0, 1, "nil")}

NextStamps ==
    \/ ncalls[1] < MaxCalls /\ \E o \in CallsStamps : Begin(1, o)
    \/ Lock(1) \/ Unlock(1) \/ RLock(1) \/ RUnlock(1)
    \/ Store(1) \/ Get(1) \/ Load(1) \/ StoreBack(1)
    \/ JanitorTick \/ JanitorLock \/ JanitorSweep \/ JanitorUnlock
    \/ Tick

SpecStamps == InitStamps /\ [][NextStamps]_vars

(* ------------------------------------------- the overwrite specification *)
\* NumCallers goroutines make one call each on k1, a Get, a Set, a Delete or
\* a Flush, while the clock, the janitor, the push goroutines and the
\* workers run.  k1 was Set at clock 0 with a refresh deadline of 1 and an
\* expiration later than that, or none; the clock runs one reading past
\* MaxTime, so that an entry read as stale can expire afterwards.
TickPast ==
    /\ Running
    /\ now < MaxTime + 1
    /\ now' = now + 1
    /\ UNCHANGED <<cfgVars, items, lockVars, onRefreshNeeded, refreshVars,
                   procVars, workerVars, janVars, panicked, histVars>>

InitOver ==
    /\ New(0, TRUE, MaxWorkers)
    /\ oneShot = TRUE
    /\ now = 0
    /\ refreshKeys = <<>>
    /\ onRefreshNeeded = "f"
    /\ \E d \in {NoExpiration, MaxDuration + 1} : StoredAtZero(Obj("string", 1), d, 1)

CallsOver ==
    {Op("Set", "k1", Obj("string", 2), NoExpiration, NoRefreshDeadline, 0, "nil")}
    \cup {Op(name, "k1", Nil, 0, 0, 0, "nil") : name \in {"Get", "Delete", "Flush"}}

NextOver ==
    \/ \E p \in Procs :
        \/ \E o \in CallsOver : Begin(p, o)
        \/ Lock(p) \/ Unlock(p) \/ Store(p) \/ Del(p) \/ FlushItems(p)
        \/ GetStep(p)
    \/ JanitorTick \/ JanitorLock \/ JanitorSweep \/ JanitorUnlock
    \/ \E k \in Keys : Push(k)
    \/ \E w \in Workers :
        WorkerRecv(w) \/ WorkerCall(w) \/ WorkerReturn(w) \/ WorkerLock(w)
        \/ WorkerDelete(w)
    \/ TickPast

\* The refresh pipeline runs: a pending push is accepted when the queue has
\* room, a worker receives, calls the callback, the callback returns, and
\* the dedup lock is released by a caller that holds it and handed to a
\* worker that keeps asking.  Nothing is assumed of the callers' other steps
\* or of the janitor.
SpecOver ==
    /\ InitOver /\ [][NextOver]_vars
    /\ \A p \in Procs : WF_vars(RefreshCheck(p))
    /\ \A k \in Keys : WF_vars(Push(k))
    /\ \A w \in Workers :
            /\ WF_vars(WorkerRecv(w) \/ WorkerCall(w) \/ WorkerReturn(w)
                        \/ WorkerDelete(w))
            /\ SF_vars(WorkerLock(w))

(* ------------------------------------------------- the mix specification *)
\* NumCallers goroutines make one call each on k1, of every kind, while the
\* janitor, the push goroutines and the workers run.  k1 was Set at clock 0
\* to an integer with a refresh deadline of 1, which has passed: the clock
\* reads MaxTime.  The callback was registered before: f, g (which calls
\* Set), r (which calls Get) or h (which never returns).
InitMix ==
    /\ New(0, TRUE, MaxWorkers)
    /\ oneShot = TRUE
    /\ now = MaxTime
    /\ refreshKeys = <<>>
    /\ onRefreshNeeded \in {"f", "g", "r", "h"}
    /\ StoredAtZero(Obj("int8", 1), NoExpiration, 1)

CallsMix ==
    {Op(name, "k1", Obj("int8", 2), NoExpiration, 1, 0, "nil") : name \in WriteNames}
    \cup {Op(name, "k1", Nil, 0, 0, 0, "nil") : name \in {"Get", "Delete", "Flush"}}
    \cup {Op("Increment", "k1", Nil, 0, 0, 1, "nil")}

\* The steps of a call.
CallStep(p) ==
    \/ Unlock(p) \/ RUnlock(p)
    \/ Store(p) \/ Get(p) \/ get(p) \/ set(p)
    \/ RefreshCheck(p) \/ RefreshDelete(p)
    \/ Load(p) \/ StoreBack(p) \/ Del(p) \/ FlushItems(p)

NextMix ==
    \/ \E p \in Procs :
        \/ \E o \in CallsMix : Begin(p, o)
        \/ Lock(p) \/ RLock(p) \/ RefreshLock(p)
        \/ CallStep(p)
    \/ JanitorTick \/ JanitorLock \/ JanitorSweep \/ JanitorUnlock
    \/ \E k \in Keys : Push(k)
    \/ \E w \in Workers :
        WorkerRecv(w) \/ WorkerCall(w) \/ WorkerReturn(w) \/ WorkerLock(w)
        \/ WorkerDelete(w) \/ CallbackStep(w) \/ CallbackGet(w)

SpecMix == InitMix /\ [][NextMix]_vars

\* A goroutine that can run does run and the locks are handed to a waiter
\* that keeps asking: every caller, the janitor and every worker takes its
\* steps.  Nothing is assumed of the pushes or of the workers' receives, and
\* the callback h never returns.
SpecMixFair ==
    /\ SpecMix
    /\ \A p \in Procs :
            SF_vars(Lock(p) \/ RLock(p) \/ RefreshLock(p) \/ CallStep(p))
    /\ SF_vars(JanitorLock \/ JanitorSweep \/ JanitorUnlock)
    /\ \A w \in Workers :
            SF_vars(WorkerCall(w) \/ WorkerReturn(w) \/ WorkerLock(w)
                        \/ WorkerDelete(w) \/ CallbackStep(w) \/ CallbackGet(w))

(* ============================================================= claims *)
\* The lifetime history gives the entry of k at clock reading t: it exists
\* and its resolved duration is not positive, or t is not past t0 + d.
WrittenLive(k, t) ==
    /\ k \in DOMAIN lastWrite
    /\ (lastWrite[k].d <= 0 \/ t <= lastWrite[k].t + lastWrite[k].d)

\* Caller p has done the read of a Get and not yet returned.
GetAnswered(p) == op[p].name = "Get" /\ pc[p] = "RUnlock"

\* C1: a Get of k answers found, with the written value, exactly while the
\* clock reading of its expiry test is at most t + d of the write the entry
\* stems from (a write with a resolved duration <= 0 never expires), whether
\* or not the janitor has swept; after Delete or Flush it answers not-found.
C1_GetFoundUntilExpiration ==
    \A p \in Procs :
        GetAnswered(p) =>
            /\ ret[p].found = WrittenLive(K(p), ret[p].at)
            /\ ret[p].found /\ lastWrite[K(p)].arith = 0
                    => ret[p].value = lastWrite[K(p)].x
            /\ ~ret[p].found => ret[p].value = Nil

\* C1 witness: a Get answered not-found for an expired entry that is still in
\* the map, the janitor running.
C1_Witness ==
    \E p \in Procs :
        /\ GetAnswered(p) /\ ~ret[p].found
        /\ K(p) \in DOMAIN items /\ K(p) \in DOMAIN lastWrite
        /\ lastWrite[K(p)].d > 0
        /\ janitorOn

\* C3: a Get of a key no entry was ever stored under answers (nil, false).
C3_NeverWrittenNotFound ==
    \A p \in Procs :
        GetAnswered(p) /\ K(p) \notin everWritten
            => ret[p].value = Nil /\ ~ret[p].found

\* C3 witness: such a Get after another key was written.
C3_Witness ==
    \E p \in Procs :
        /\ GetAnswered(p) /\ K(p) \notin everWritten /\ ~ret[p].found
        /\ everWritten # {} /\ items # EmptyMap

\* y is the value of type ty that x wraps to: in the range of ty and equal to
\* x modulo 2^Bits(ty).
InRange(ty, y) ==
    IF Signed(ty) THEN -Pow2(Bits(ty) - 1) <= y /\ y < Pow2(Bits(ty) - 1)
    ELSE 0 <= y /\ y < Pow2(Bits(ty))
WrapsTo(ty, x, y) == InRange(ty, y) /\ (y - x) % Pow2(Bits(ty)) = 0

\* The stored entry of k is the one its lifetime history describes.
EntryAsWritten(k) ==
    LET w == lastWrite[k]
    IN  /\ items[k].Expiration = (IF w.d > 0 THEN w.t + w.d ELSE 0)
        /\ items[k].Object.type = w.x.type
        /\ IF w.arith = 0 THEN items[k].Object = w.x
           ELSE w.x.type \in IntTypes
                    => WrapsTo(w.x.type, w.x.val + w.sum, items[k].Object.val)

\* C4: Add proceeds to its write only when the key has no unexpired entry and
\* then stores its value; on a key with an unexpired entry it returns the
\* already-exists error and the entry stays the one written before.
C4_AddRefusesLiveKey ==
    \A p \in Procs :
        op[p].name = "Add" =>
            /\ pc[p] = "set" => ~WrittenLive(K(p), ret[p].at)
            /\ pc[p] = "Unlock" => ret[p].err \in {"", "AlreadyExists"}
            /\ pc[p] = "Unlock" /\ ret[p].err = "AlreadyExists" =>
                    /\ WrittenLive(K(p), ret[p].at)
                    /\ storageFound(items, K(p))
                    /\ EntryAsWritten(K(p))
            /\ pc[p] = "Unlock" /\ ret[p].err = "" =>
                    /\ storageFound(items, K(p))
                    /\ items[K(p)].Object = op[p].x
                    /\ lastWrite[K(p)].x = op[p].x /\ lastWrite[K(p)].arith = 0

\* C4 witness: an Add of another value was refused and the entry still holds
\* the value written first.
C4_Witness ==
    \E p \in Procs :
        /\ op[p].name = "Add" /\ pc[p] = "Unlock" /\ ret[p].err = "AlreadyExists"
        /\ items[K(p)].Object # op[p].x
        /\ items[K(p)].Object = lastWrite[K(p)].x

\* C5: Replace proceeds to its write only when the key has an unexpired entry
\* and then stores its value; otherwise it returns the not-found error and
\* stores nothing: a never-written key stays absent, an expired entry stays.
C5_ReplaceNeedsLiveKey ==
    \A p \in Procs :
        op[p].name = "Replace" =>
            /\ pc[p] = "set" => WrittenLive(K(p), ret[p].at)
            /\ pc[p] = "Unlock" => ret[p].err \in {"", "NotFound"}
            /\ pc[p] = "Unlock" /\ ret[p].err = "NotFound" =>
                    /\ ~WrittenLive(K(p), ret[p].at)
                    /\ K(p) \notin everWritten => ~storageFound(items, K(p))
                    /\ storageFound(items, K(p)) => EntryAsWritten(K(p))
            /\ pc[p] = "Unlock" /\ ret[p].err = "" =>
                    /\ storageFound(items, K(p))
                    /\ items[K(p)].Object = op[p].x
                    /\ lastWrite[K(p)].x = op[p].x /\ lastWrite[K(p)].arith = 0

\* C5 witness: a Replace on a never-written key has failed, the map holding
\* no entry for it.
C5_Witness ==
    \E p \in Procs :
        /\ op[p].name = "Replace" /\ pc[p] = "Unlock" /\ ret[p].err = "NotFound"
        /\ K(p) \notin everWritten /\ ~storageFound(items, K(p))

\* C6: after Set(k, v) and any Increment(k, n) and Decrement(k, n) calls, the
\* stored value has the type of v and is v plus the net amount reduced modulo
\* 2^w into the range of that type, and a Get yields that value.
C6_ArithmeticWrapsInStoredType ==
    /\ \A k \in DOMAIN items : EntryAsWritten(k)
    /\ \A p \in Procs :
        GetAnswered(p) /\ ret[p].found =>
            LET w == lastWrite[K(p)]
            IN  /\ ret[p].value.type = w.x.type
                /\ WrapsTo(w.x.type, w.x.val + w.sum, ret[p].value.val)

\* C6 witness: Set(k, int8(127)); Increment(k, 1); Get(k) has answered -128.
C6_Witness ==
    \E p \in Procs :
        /\ GetAnswered(p) /\ ret[p].found
        /\ lastWrite[K(p)].x = Obj("int8", 127)
        /\ lastWrite[K(p)].arith = 1 /\ lastWrite[K(p)].sum = 1
        /\ ret[p].value = Obj("int8", -128)

\* The duration a call's d resolves to, and the timestamps the claim derives
\* from the call's own arguments and clock reading t.
Resolved(d) == IF d = DefaultExpiration THEN defaultExpiration ELSE d
ClaimedItem(o, t) ==
    Item(o.x, IF Resolved(o.d) > 0 THEN t + Resolved(o.d) ELSE 0,
         IF o.rd > 0 THEN t + o.rd ELSE 0)

\* C2: when Set(k, v, d, rd) has stored, the entry of k is v with the
\* timestamps of this call's d and rd, whatever k held before; a Get that
\* answers found yields the stored value, type included.
C2_SetOverwrites ==
    \A p \in Procs :
        /\ op[p].name = "Set" /\ pc[p] = "Unlock" =>
                /\ storageFound(items, K(p))
                /\ items[K(p)] = ClaimedItem(op[p], locals[p].t)
        /\ GetAnswered(p) /\ ret[p].found =>
                /\ storageFound(items, K(p))
                /\ ret[p].value = items[K(p)].Object

\* C2 witness: a Set without refresh deadline has overwritten an entry whose
\* refresh was dispatched (it was stale), while another Set or Get went on.
C2_Witness ==
    \E p \in Procs :
        /\ op[p].name = "Set" /\ pc[p] = "Unlock"
        /\ K(p) \in refreshConcurrencyMap
        /\ items[K(p)] = Item(op[p].x, 0, 0)

AllDone == \A p \in Procs : pc[p] = "done"
Succeeded == {p \in Procs : ret[p].err = ""}

\* C7: between the check and the act of an Add the key has no unexpired
\* entry; and when every caller has made an Add on k1, every call that did
\* not succeed returned already-exists, two calls succeeded only if the
\* entry of one had expired at the check of the other, the stored value is
\* the one of a successful call, and no call succeeded only if the key held
\* an unexpired entry at every check.
C7_ConcurrentAddOneWinner ==
    /\ \A p \in Procs :
            op[p].name = "Add" /\ pc[p] = "set" => ~WrittenLive(K(p), ret[p].at)
    /\ AllDone /\ (\A p \in Procs : op[p].name = "Add") =>
            LET e(p) == ClaimedItem(op[p], locals[p].t).Expiration
            IN  /\ \A p \in Procs \ Succeeded : ret[p].err = "AlreadyExists"
                /\ \A p, q \in Succeeded :
                        p # q => \/ e(p) > 0 /\ ret[q].at > e(p)
                                 \/ e(q) > 0 /\ ret[p].at > e(q)
                /\ Succeeded # {} =>
                        \E p \in Succeeded : items["k1"].Object = op[p].x
                /\ Succeeded = {} =>
                        \A p \in Procs : WrittenLive("k1", ret[p].at)

\* C7 witness: two Adds of different values are done, one succeeded at a clock
\* reading past 0 and its value is stored, the other was refused.
C7_Witness ==
    /\ AllDone
    /\ \A p \in Procs : op[p].name = "Add"
    /\ \E p, q \in Procs :
            /\ op[p].x # op[q].x
            /\ ret[p].err = "" /\ ret[q].err = "AlreadyExists"
            /\ items["k1"].Object = op[p].x
    /\ Cardinality(Succeeded) = 1
    /\ lastWrite["k1"].t > 0

\* The amount call p adds.
Delta(p) == IF Adds(op[p].name) THEN op[p].n ELSE 0 - op[p].n
RECURSIVE SumOf(_)
SumOf(S) == IF S = {} THEN 0
            ELSE LET p == CHOOSE q \in S : TRUE IN Delta(p) + SumOf(S \ {p})
\* The serial orders of the calls in S.
Orders(S) ==
    {f \in [1..Cardinality(S) -> S] :
        \A i, j \in 1..Cardinality(S) : i # j => f[i] # f[j]}

\* C8: when every caller has made an arithmetic call on k1, the stored value
\* is the value written plus the amounts of all calls that succeeded, wrapped
\* in its type, and there is a serial order of those calls in which every
\* typed call returned the partial sum up to and including itself.
C8_NoLostUpdate ==
    AllDone /\ (\A p \in Procs : op[p].name \in ArithNames) /\ Succeeded # {} =>
        LET v == lastWrite["k1"].x
        IN  /\ storageFound(items, "k1")
            /\ items["k1"].Object.type = v.type
            /\ WrapsTo(v.type, v.val + SumOf(Succeeded), items["k1"].Object.val)
            /\ \E f \in Orders(Succeeded) :
                    \A i \in 1..Cardinality(Succeeded) :
                        Typed(op[f[i]].name) =>
                            /\ ret[f[i]].value.type = v.type
                            /\ WrapsTo(v.type, v.val + SumOf({f[j] : j \in 1..i}),
                                       ret[f[i]].value.val)

\* C8 witness: two typed increments by different amounts of int8(127) are
\* done and both succeeded.
C8_Witness ==
    /\ AllDone
    /\ \A p \in Procs : op[p].name = "IncrementTyped" /\ ret[p].err = ""
    /\ \E p, q \in Procs : op[p].n # op[q].n
    /\ lastWrite["k1"].x = Obj("int8", 127)
    /\ items["k1"].Object.val < 0

\* Refresh requests for k: pushes not yet accepted, keys in the queue, and
\* workers at the given positions with k in hand.
Queued(k) == Cardinality({i \in 1..Len(refreshKeys) : refreshKeys[i] = k})
Holding(k, positions) ==
    Cardinality({w \in Workers : wkey[w] = k /\ wpc[w] \in positions})
Outstanding(k) == pushers[k] + Queued(k) + Holding(k, {"call", "running"})

\* C9: as long as the calls made are Gets (or others that do not dispatch),
\* a key is in the dedup set exactly while one request for it is pending,
\* queued or in a worker's hand, and the callback has been started for it
\* once exactly when a worker is past the call: every removal from the dedup
\* set follows exactly one invocation, however many Gets found the key stale.
C9_OneCallbackPerDispatch ==
    (\A p \in Procs : op[p].name \notin {"Add", "Replace"}) =>
        \A k \in Keys :
            /\ Outstanding(k) + Holding(k, {"Lock", "delete"})
                    = (IF k \in refreshConcurrencyMap THEN 1 ELSE 0)
            /\ k \in refreshConcurrencyMap =>
                    invoked[k] = Holding(k, {"running", "Lock", "delete"})

\* C9 witness: of two Gets of a stale key one is done and the other finds the
\* key in the dedup set, the callback having been started once.
C9_Witness ==
    \E p, q \in Procs :
        /\ p # q /\ op[p].name = "Get" /\ op[q].name = "Get"
        /\ pc[q] = "done" /\ pc[p] = "RefreshCheck"
        /\ K(p) \in refreshConcurrencyMap /\ invoked[K(p)] = 1

\* C10: each key has at most one outstanding refresh request (push pending,
\* queued, or callback about to run or running).
C10_OneOutstandingRefreshPerKey ==
    \A k \in Keys : Outstanding(k) <= 1

\* C11: a key is in the dedup set in every state in which a refresh request
\* for it is outstanding (its push pending, queued, or in a worker's hand up
\* to the return of the callback), whichever of Get, Add and Replace
\* dispatched the request.
C11_DedupEntryLastsUntilCallbackDone ==
    \A k \in Keys : Outstanding(k) > 0 => k \in refreshConcurrencyMap

\* C12: a Get of an unexpired entry answers found with the entry's value,
\* stale or not, and every Get that has been called returns, with no worker,
\* with the queue full and with callbacks that do not return.
C12_GetNeverWaitsOnRefresh ==
    /\ [](\A p \in Procs :
            GetAnswered(p) /\ WrittenLive(K(p), ret[p].at) =>
                ret[p].found /\ ret[p].value = lastWrite[K(p)].x)
    /\ \A p \in Procs : (pc[p] = "RLock") ~> (pc[p] = "idle")

\* C12 witness: a Get is about to return the stale value while the push it
\* started waits at a full queue that no worker reads.
C12_Witness ==
    \E p \in Procs :
        /\ GetAnswered(p) /\ ret[p].found
        /\ Stale(locals[p].v, ret[p].at)
        /\ ret[p].value = locals[p].v.Object
        /\ refreshWorkerCount = 0
        /\ Len(refreshKeys) = RefreshQueueCap
        /\ pushers[K(p)] > 0

\* The callback is running for k.
CallbackRunning(k) == Holding(k, {"running"}) > 0

\* A refresh of k has completed without a write (the callback ran once and a
\* worker removed k from the dedup set), no other is outstanding, and a Get
\* has since found the entry unexpired and stale.
StaleAgain(k) ==
    /\ refreshWorkerCount > 0
    /\ k \notin refreshConcurrencyMap /\ invoked[k] = 1 /\ Outstanding(k) = 0
    /\ \E p \in Procs : op[p].name = "Get" /\ K(p) = k /\ pc[p] = "RefreshLock"

\* C13: the refresh pipeline leaves the entry as it was written, refresh
\* deadline included, so that the entry is stale whenever a worker has removed
\* its key from the dedup set after the callback; and a Get that then finds
\* the entry unexpired leads to the callback running for the key once more.
C13_RefreshWithoutWriteIsRepeated ==
    /\ [](/\ storageFound(items, "k1")
          /\ EntryAsWritten("k1")
          /\ items["k1"].RefreshDeadline = RefreshDeadlineOf(1, lastWrite["k1"].t)
          /\ \A k \in DOMAIN items :
                invoked[k] > 0 /\ k \notin refreshConcurrencyMap
                    => Stale(items[k], now))
    /\ \A k \in Keys : StaleAgain(k) ~> CallbackRunning(k)

\* C13 witness: after a completed refresh of k1 the entry is still stale and a
\* further Get of it is on its way to the dedup set.
C13_Witness ==
    /\ StaleAgain("k1")
    /\ Stale(items["k1"], now)
    /\ \A w \in Workers : wpc[w] = "recv"

\* Caller p is about to return the not-found error from an arithmetic call.
ArithNotFound(p) ==
    op[p].name \in ArithNames /\ pc[p] = "Unlock" /\ ret[p].err = "NotFound"

\* The steps of an arithmetic call of p on a key: after the lookup the call
\* has the not-found error exactly if the key has no unexpired entry, and
\* then neither that step nor the release of the lock that follows changes the
\* storage; the release frees the exclusive lock that p held.
C14Step(p) ==
    /\ pc[p] = "Load" /\ pc'[p] # "Load" =>
            /\ ret'[p].err = "NotFound" <=> ~WrittenLive(K(p), now)
            /\ ret'[p].err = "NotFound" =>
                    /\ items' = items
                    /\ pc'[p] = "Unlock"
                    /\ writer' = Caller(p)
    /\ ArithNotFound(p) /\ pc'[p] # "Unlock" =>
            /\ items' = items
            /\ writer = Caller(p) /\ writer' = NoProc /\ readers' = {}

\* C14: an arithmetic call on a key that is absent or whose entry is expired
\* (swept or not) returns not-found, leaves the storage as it was and
\* releases the exclusive lock.
C14_ArithmeticOnMissingKey == [][\A p \in Procs : C14Step(p)]_vars

\* C14 witness: an arithmetic call has found an expired entry that the
\* janitor has not swept; the entry is in the map as it was written.
C14_Witness ==
    \E p \in Procs :
        /\ ArithNotFound(p)
        /\ storageFound(items, K(p))
        /\ EntryAsWritten(K(p))
        /\ janitorOn /\ writer = Caller(p)

\* The types of stored values an arithmetic call is for: the requested type
\* alone for a typed variant, the floating-point kinds for IncrementFloat and
\* DecrementFloat, the integer and floating-point kinds for the generic calls.
IntegerKinds == {"int", "int8", "int16", "int32", "int64", "uint", "uintptr",
                 "uint8", "uint16", "uint32", "uint64"}
FloatKinds == {"float32", "float64"}
Accepts(o) ==
    CASE o.name \in {"IncrementTyped", "DecrementTyped"} -> {o.ty}
      [] o.name \in {"IncrementFloat", "DecrementFloat"} -> FloatKinds
      [] OTHER -> IntegerKinds \cup FloatKinds

\* Caller p is about to return the wrong-type error from an arithmetic call.
ArithMismatch(p) ==
    op[p].name \in ArithNames /\ pc[p] = "Unlock" /\ ret[p].err = "TypeMismatch"

\* The steps of an arithmetic call of p on a key with an unexpired entry: the
\* call has the wrong-type error exactly if the type of the value written is
\* not one the call is for, and then it returns 0 (a typed variant) or the
\* error alone, and neither that step nor the release of the lock changes the
\* storage.
C15Step(p) ==
    /\ pc[p] = "Load" /\ pc'[p] # "Load" /\ WrittenLive(K(p), now) =>
            /\ ret'[p].err = "TypeMismatch"
                    <=> lastWrite[K(p)].x.type \notin Accepts(op[p])
            /\ ret'[p].err = "TypeMismatch" =>
                    /\ items' = items
                    /\ pc'[p] = "Unlock"
                    /\ ret'[p].value =
                        (IF Typed(op[p].name) THEN Obj(op[p].ty, 0) ELSE Nil)
    /\ ArithMismatch(p) /\ pc'[p] # "Unlock" =>
            /\ items' = items
            /\ EntryAsWritten(K(p))

\* C15: arithmetic on a live entry whose value has a type the call is not for
\* fails with an error and the zero value and leaves the entry as it was.
C15_ArithmeticOnWrongType == [][\A p \in Procs : C15Step(p)]_vars

\* C15 witness: a typed variant for uint8 has refused a stored int8.
C15_Witness ==
    \E p \in Procs :
        /\ ArithMismatch(p) /\ Typed(op[p].name)
        /\ op[p].ty = "uint8"
        /\ items[K(p)].Object = Obj("int8", 127)
        /\ ret[p].value = Obj("uint8", 0)

\* Caller p has completed a typed increment or decrement with success.
TypedDone(p) == Typed(op[p].name) /\ pc[p] = "done" /\ ret[p].err = ""

\* C16: a typed variant that succeeds returns, in its own type, the value it
\* has stored; and when it has returned and no other call has been made but a
\* Get of the key, that Get answers found while the entry is unexpired, with
\* the value the typed call returned.  (The Get holds the read lock, so the
\* typed call's critical section lies before its read.)
C16_TypedArithmeticReturnsStoredValue ==
    /\ \A p \in Procs :
            Typed(op[p].name) /\ pc[p] = "Unlock" /\ ret[p].err = "" =>
                /\ storageFound(items, K(p))
                /\ ret[p].value = items[K(p)].Object
                /\ ret[p].value.type = op[p].ty
    /\ \A p, q \in Procs :
            /\ p # q /\ TypedDone(p)
            /\ GetAnswered(q) /\ K(q) = K(p)
            /\ \A r \in Procs \ {p, q} : pc[r] = "idle"
            => /\ ret[q].found = WrittenLive(K(q), ret[q].at)
               /\ ret[q].found => ret[q].value = ret[p].value

\* C16 witness: IncrementInt8 of a stored 127 has returned a negative int8 and
\* the Get that followed answers that value.
C16_Witness ==
    \E p, q \in Procs :
        /\ p # q /\ TypedDone(p) /\ op[p].name = "IncrementTyped"
        /\ GetAnswered(q) /\ ret[q].found
        /\ \A r \in Procs \ {p, q} : pc[r] = "idle"
        /\ ret[p].value.type = "int8" /\ ret[p].value.val < 0
        /\ ret[q].value = ret[p].value

\* C17: when Flush has acted the map holds no key; a Get of a key whose last
\* write a Flush removed answers (nil, not-found); and a Get of a key written
\* and not removed since answers by the lifetime of that write alone, whatever
\* was flushed before it.
C17_FlushRemovesEveryKey ==
    /\ \A p \in Procs :
            op[p].name = "Flush" /\ pc[p] = "Unlock" =>
                \A k \in Keys : ~storageFound(items, k)
    /\ \A p \in Procs :
            GetAnswered(p) /\ removedBy[K(p)] = "Flush" =>
                ~ret[p].found /\ ret[p].value = Nil
    /\ \A p \in Procs :
            GetAnswered(p) /\ K(p) \in everWritten /\ removedBy[K(p)] = "no" =>
                ret[p].found = WrittenLive(K(p), ret[p].at)

\* C17 witness: a Get answers not-found for a key that was written and
\* flushed, the clock still at 0 (no entry can have expired).
C17_Witness ==
    \E p \in Procs :
        /\ GetAnswered(p) /\ removedBy[K(p)] = "Flush"
        /\ ~ret[p].found /\ now = 0

\* The steps of p that C18 is about.  The removal of Delete(k): afterwards the
\* map has no entry for k and holds every other key with the entry it had, so
\* that nothing changes if k was absent; no error is reported.  The lookup of
\* a Get of a key whose last write a Delete removed: it answers (nil, false).
C18Step(p) ==
    /\ pc[p] = "Del" /\ pc'[p] # "Del" =>
            /\ ~storageFound(items', K(p))
            /\ \A k \in Keys \ {K(p)} :
                    /\ storageFound(items', k) = storageFound(items, k)
                    /\ storageFound(items, k) => items'[k] = items[k]
            /\ ~storageFound(items, K(p)) => items' = items
            /\ ret'[p].err = ""
    /\ pc[p] = "Get" /\ pc'[p] # "Get" /\ removedBy[K(p)] = "Delete" =>
            ~ret'[p].found /\ ret'[p].value = Nil

\* C18: Delete(k) removes the entry of k and nothing else, is a no-op on an
\* absent key, reports no error, and a Get(k) that follows answers
\* (nil, not-found).
C18_DeleteRemovesKey == [][\A p \in Procs : C18Step(p)]_vars

\* C18 witness: a Get answers not-found for a key that was written and
\* deleted, the clock still at 0 (the entry cannot have expired).
C18_Witness ==
    \E p \in Procs :
        /\ GetAnswered(p) /\ removedBy[K(p)] = "Delete"
        /\ ~ret[p].found /\ ret[p].value = Nil /\ now = 0

\* The write the entry of k stems from gave it an expiration, and that is
\* earlier than the clock reading t.
WrittenExpired(k, t) ==
    lastWrite[k].d > 0 /\ t > lastWrite[k].t + lastWrite[k].d

\* The removal step of a sweep whose clock reading is jnow: it removes the
\* entries whose expiration is earlier than that reading and no other, each
\* removed entry has a nonzero expiration and would not be found by a Get at
\* the moment of the removal, every other entry stays as it is, no entry
\* appears, and on an empty map the step completes with the map empty.
C19Step ==
    jpc = "Sweep" /\ jpc' # "Sweep" =>
        /\ jpc' = "Unlock"
        /\ \A k \in Keys :
            /\ storageFound(items', k) =>
                    storageFound(items, k) /\ items'[k] = items[k]
            /\ storageFound(items, k) =>
                    /\ ~storageFound(items', k) <=> WrittenExpired(k, jnow)
                    /\ ~storageFound(items', k) =>
                            /\ items[k].Expiration # 0
                            /\ ~WrittenLive(k, now)
                            /\ ~Live(items[k], now)
        /\ items = EmptyMap => items' = EmptyMap

\* C19: each janitor sweep removes exactly the expired entries: never one
\* with expiration 0, never one a Get would find, no change to the others,
\* and it completes on an empty store.
C19_SweepRemovesExactlyExpired == [][C19Step]_vars

\* C19 witness: a sweep has removed an expired entry and left a never-expiring
\* one in the map.
C19_Witness ==
    /\ jpc = "Unlock"
    /\ \E k \in DOMAIN lastWrite : ~storageFound(items, k) /\ lastWrite[k].d > 0
    /\ \E k \in DOMAIN items : items[k].Expiration = 0

\* The entries that were stored whole: the one Set at clock 0 and the one of
\* every Set call that has completed its store.
WholeEntries ==
    {InitialEntry}
    \cup {ClaimedItem(op[q], locals[q].t) :
            q \in {r \in Procs : op[r].name = "Set" /\ pc[r] \in {"Unlock", "done"}}}

\* C20: the entry a Get has read, while Sets of the key go on, is one that
\* was stored whole: the value of a write with the expiration and the refresh
\* deadline of that same write; the Get answers found with that value.
C20_ReadersSeeWholeEntries ==
    \A p \in Procs :
        GetAnswered(p) =>
            /\ locals[p].v \in WholeEntries
            /\ ret[p].found /\ ret[p].value = locals[p].v.Object

\* C20 witness: a Get has read the new entry of a Set whose value and
\* timestamps all differ from those of the entry before.
C20_Witness ==
    \E p, q \in Procs :
        /\ GetAnswered(p) /\ op[q].name = "Set" /\ pc[q] = "done"
        /\ locals[p].v = ClaimedItem(op[q], locals[q].t)
        /\ locals[p].v.Object # InitialEntry.Object
        /\ locals[p].v.Expiration # InitialEntry.Expiration
        /\ locals[p].v.RefreshDeadline # InitialEntry.RefreshDeadline

\* The caller is between Lock and Unlock of a write.
InsideLock(p) ==
    pc[p] \in {"Store", "get", "set", "Load", "StoreBack", "Del", "Unlock"}

DefaultOf(de) == IF de = 0 THEN NoExpiration ELSE de
DurationOf(d) == IF d = DefaultExpiration THEN DefaultOf(configured) ELSE d
TimestampsOf(d, rd, t) ==
    [Expiration |-> IF DurationOf(d) > 0 THEN t + DurationOf(d) ELSE 0,
     RefreshDeadline |-> IF rd > 0 THEN t + rd ELSE 0]

\* The call of p is a Set, Add or Replace that has stored its entry.
HasWritten(p) ==
    op[p].name \in WriteNames /\ pc[p] = "Unlock" /\ ret[p].err = ""

\* C22: the cache holds the configured default, 0 normalised to never; when
\* a Set, Add or Replace has stored, the expiration of the entry is the clock
\* reading of the call plus its duration, the default standing in for a
\* duration of 0, or 0 when that is not positive, and the refresh deadline is
\* the clock reading plus rd when rd > 0, else 0.
C22_TimestampsResolved ==
    /\ defaultExpiration = DefaultOf(configured)
    /\ \A p \in Procs : HasWritten(p) =>
        LET ts == TimestampsOf(op[p].d, op[p].rd, locals[p].t)
        IN  /\ storageFound(items, K(p))
            /\ items[K(p)].Object = op[p].x
            /\ items[K(p)].Expiration = ts.Expiration
            /\ items[K(p)].RefreshDeadline = ts.RefreshDeadline

\* C22 witness: on a cache with a positive default a Replace with a shorter
\* positive duration and a refresh deadline has stored at a clock reading
\* past 0 over an entry written with the default duration.
C22_Witness ==
    \E p \in Procs :
        /\ HasWritten(p)
        /\ op[p].name = "Replace"
        /\ op[p].d > 0 /\ op[p].d < configured
        /\ op[p].rd > 0
        /\ locals[p].t > 0
        /\ items[K(p)].Expiration = locals[p].t + op[p].d

\* C23: on a cache constructed with no refresh worker nothing is dispatched:
\* no key is in the dedup set, no goroutine is pushing a key, the key the
\* callers read is not in the refresh queue, and no callback was invoked.
C23_NoWorkersNoDispatch ==
    refreshWorkerCount = 0 =>
        /\ refreshConcurrencyMap = {}
        /\ \A k \in Keys : pushers[k] = 0 /\ invoked[k] = 0
        /\ Queued("k1") = 0

\* No callback was registered and no caller is registering one.
NeverRegistered ==
    /\ onRefreshNeeded = "nil"
    /\ \A p \in Procs : op[p].name # "OnRefreshNeeded"

\* C24: as long as no callback was registered through OnRefreshNeeded, the
\* refresh workers handle the keys of stale Gets without a fatal failure.
C24_MissingCallbackIsHarmless == NeverRegistered => ~panicked

\* The worker is in the callback; the callback g is in its Set.
InCallback(w) == wpc[w] \in {"running", "Set", "SetLock", "SetStore", "SetUnlock"}
InCallbackSet(w) == wpc[w] \in {"Set", "SetLock", "SetStore", "SetUnlock"}

\* The entry of k is the one the callback g has installed, and its refresh
\* deadline has not passed.
RefreshedLive(k) ==
    /\ storageFound(items, k)
    /\ items[k].Object = Refreshed
    /\ items[k].RefreshDeadline >= now

\* C25: a worker in the callback does not hold the dedup lock, and none it
\* took before the callback's Set asked for the storage lock; the Set a
\* callback has begun completes and the callback returns; and a Get that
\* reads the entry the callback installed before its refresh deadline has
\* passed returns the new value and does not dispatch the key.
C25_CallbackMaySet ==
    /\ [](\A w \in Workers :
            /\ InCallback(w) => refreshConcurrencyMutex # Worker(w)
            /\ wpc[w] \in {"running", "Set", "SetLock"} => writer # Worker(w))
    /\ \A w \in Workers :
            InCallbackSet(w) ~>
                (wpc[w] = "Lock" /\ lastWrite[wkey[w]].x = Refreshed)
    /\ [][\A p \in Procs :
            pc[p] = "Get" /\ pc'[p] # "Get" /\ RefreshedLive(K(p)) =>
                /\ pc'[p] = "RUnlock"
                /\ ret'[p].found /\ ret'[p].value = Refreshed
                /\ UNCHANGED <<refreshConcurrencyMap, pushers, refreshKeys>>]_vars

\* C25 witness: the callback has set k1 while a caller was in a call, the
\* worker is done with the key, and a Get has returned the new value with no
\* request for k1 outstanding.
C25_Witness ==
    \E p \in Procs :
        /\ GetAnswered(p)
        /\ ret[p].found /\ ret[p].value = Refreshed
        /\ RefreshedLive("k1")
        /\ invoked["k1"] = 1
        /\ \A w \in Workers : wpc[w] = "recv"
        /\ Outstanding("k1") = 0 /\ "k1" \notin refreshConcurrencyMap

\* The step is one of the holder of the exclusive lock (a call or the
\* janitor), who holds the lock before and after it.
StepOfWriter ==
    /\ writer # NoProc /\ writer' = writer
    /\ \/ \E p \in Procs : writer = Caller(p) /\ pc'[p] # pc[p]
       \/ writer = Janitor /\ jpc' # jpc

\* C26: for the in-memory storage the exclusive lock is held while no caller
\* holds the shared lock, and every step that changes the map is a step of
\* the holder of the exclusive lock.
C26_MutationsUnderExclusiveLock ==
    /\ [](writer # NoProc => readers = {})
    /\ [][items' # items => StepOfWriter /\ readers = {}]_vars

\* C26 witness: every caller is a Get that holds the shared lock, more than
\* one of them, while the janitor waits for the exclusive lock to remove the
\* expired entry.
C26_Witness ==
    /\ readers = Procs /\ Cardinality(readers) > 1
    /\ \A p \in Procs : op[p].name = "Get"
    /\ jpc = "Lock"
    /\ Expired(items["k1"], jnow)

\* The Add or Replace of p has found an entry in the map whose expiration had
\* passed at the clock reading of its test, and is about to unlock.
FoundExpired(p) ==
    /\ op[p].name \in {"Add", "Replace"} /\ pc[p] = "Unlock"
    /\ locals[p].v # ZeroItem
    /\ Expired(locals[p].v, ret[p].at)

\* C27: an Add that finds an expired entry not yet swept succeeds and the
\* entry of the key is the new one; a Replace that finds one fails with the
\* does-not-exist error and the expired entry is still the entry of the key.
C27_ExpiredUnsweptIsAbsent ==
    \A p \in Procs : FoundExpired(p) =>
        IF op[p].name = "Add"
        THEN /\ ret[p].err = ""
             /\ storageFound(items, K(p))
             /\ items[K(p)] =
                    Item(op[p].x,
                         TimestampsOf(op[p].d, op[p].rd, locals[p].t).Expiration,
                         TimestampsOf(op[p].d, op[p].rd, locals[p].t).RefreshDeadline)
        ELSE /\ ret[p].err = "NotFound"
             /\ storageFound(items, K(p))
             /\ items[K(p)] = locals[p].v

\* C27 witness: an Add has overwritten an expired entry that held another
\* value with an entry that is not expired.
C27_Witness ==
    \E p \in Procs :
        /\ FoundExpired(p) /\ op[p].name = "Add"
        /\ items[K(p)].Object = op[p].x
        /\ locals[p].v.Object # op[p].x
        /\ ~Expired(items[K(p)], now)

\* C28: no refresh worker is at its read of the callback field while a caller
\* is at the write of OnRefreshNeeded: the lock orders the two.
C28_CallbackReadOrderedWithWrite ==
    \A w \in Workers, p \in Procs :
        ~(wpc[w] = "call" /\ pc[p] = "SetCallback")

\* C29: with a refresh worker, callbacks that return and fair scheduling, a
\* key in the dedup set is eventually out of it with the callback invoked
\* with it since it entered, and it leaves the set only after that callback,
\* also when the queue is full and its push has to wait.
C29_DispatchedKeyIsServed ==
    /\ \A k \in Keys :
            k \in refreshConcurrencyMap ~>
                (k \notin refreshConcurrencyMap /\ invoked[k] >= 1)
    /\ [][\A k \in Keys :
            k \in refreshConcurrencyMap /\ k \notin refreshConcurrencyMap' =>
                invoked[k] >= 1]_vars

\* C29 witness: k1 is in the dedup set and its push waits behind a queue
\* that holds RefreshQueueCap requests.
C29_Witness ==
    /\ "k1" \in refreshConcurrencyMap
    /\ pushers["k1"] = 1
    /\ Len(refreshKeys) = RefreshQueueCap
    /\ refreshWorkerCount >= 1

\* The map holds an entry of k whose expiration has passed.
HoldsExpired(k) == storageFound(items, k) /\ Expired(items[k], now)

\* The step is the write of a Set or Add on k, or the removal of a Delete of
\* k or of a Flush.
OverwritesOrRemoves(k) ==
    \E p \in Procs :
        /\ pc[p] \in {"Store", "set", "Del", "FlushItems"}
        /\ pc'[p] = "Unlock"
        /\ K(p) = k \/ op[p].name = "Flush"

\* C30: with the janitor running and fair scheduling an expired entry is
\* eventually no longer in the map, whether or not a call touches the key;
\* without the janitor the map ceases to hold an expired entry of a key only
\* by the step of a Set or Add that overwrites it or of a Delete or Flush
\* that removes it.
C30_JanitorRemovesExpired ==
    /\ \A k \in Keys : (janitorOn /\ HoldsExpired(k)) ~> ~HoldsExpired(k)
    /\ [][\A k \in Keys :
            ~janitorOn /\ HoldsExpired(k) /\ ~HoldsExpired(k)'
                => OverwritesOrRemoves(k)]_vars

\* C30 witness: no caller has made a call, and the entry of k1, which had
\* expired, is gone from the map: the janitor has removed it.
C30_Witness ==
    /\ janitorOn
    /\ \A p \in Procs : pc[p] = "idle" /\ ncalls[p] = 0
    /\ "k1" \in everWritten /\ removedBy["k1"] = "no"
    /\ ~storageFound(items, "k1")
    /\ now > MaxDuration

\* C33: the step with which an Increment or Decrement, generic or typed,
\* stores its result leaves the expiration and the refresh deadline of the
\* entry as they were and changes its value only.
C33_ArithmeticKeepsTimestamps ==
    [][\A p \in Procs :
        pc[p] = "StoreBack" /\ pc'[p] # "StoreBack" =>
            /\ storageFound(items, K(p)) /\ storageFound(items', K(p))
            /\ items'[K(p)].Expiration = items[K(p)].Expiration
            /\ items'[K(p)].RefreshDeadline = items[K(p)].RefreshDeadline
            /\ items'[K(p)].Object.type = items[K(p)].Object.type
            /\ \A k \in Keys \ {K(p)} :
                    storageFound(items', k) = storageFound(items, k)]_vars

\* C33 witness: an Increment or Decrement has succeeded on an entry whose
\* refresh deadline had passed at its test, and the entry is stale still.
C33_Witness ==
    \E p \in Procs :
        /\ op[p].name \in ArithNames /\ pc[p] = "done" /\ ret[p].err = ""
        /\ storageFound(items, K(p))
        /\ Stale(items[K(p)], ret[p].at)
        /\ items[K(p)].Object # lastWrite[K(p)].x

\* -n as Go computes it for the amount n: the negation wraps at the width of
\* the amount's type, which is the width of the widest stored integer type
\* (int64 in the code, 16 bits here), so the least amount is its own negation.
Negated(n) == Truncate("int16", 0 - n)

C37_TimestampsSoundAndTestsAgree ==
    \A k \in DOMAIN items :
        /\ items[k].Expiration >= 0
        /\ items[k].RefreshDeadline >= 0
        /\ k \in DOMAIN lastWrite =>
            /\ items[k].Expiration # 0 => items[k].Expiration > lastWrite[k].t
            /\ items[k].RefreshDeadline # 0 => items[k].RefreshDeadline > lastWrite[k].t
        /\ \A t \in 0..MaxTime :
            /\ Expired(items[k], t) = ~Live(items[k], t)
            /\ Expired(items[k], t) = (k \notin DOMAIN DeleteExpired(items, t))


\* The entry of k, or ZeroItem when the map holds none, with its presence.
EntryOf(m, k) == <<storageFound(m, k), storageGet(m, k)>>

\* C38: a step of a Set, Add, Replace, Delete, Increment or Decrement on a
\* key, of a call that succeeds or fails, leaves the entry of every other
\* key as it is: it is neither stored, removed nor changed in its value or
\* its timestamps.  An entry of a key changes only by a step of a call on
\* that key, of a Flush or of the janitor's sweep.
C38_OtherKeysUntouched ==
    /\ [][\A p \in Procs :
            pc'[p] # pc[p] /\ op[p].name \in WriteNames \cup {"Delete"} \cup ArithNames
                => \A k \in Keys \ {K(p)} : EntryOf(items', k) = EntryOf(items, k)]_vars
    /\ [][\A k \in Keys :
            EntryOf(items', k) # EntryOf(items, k)
                => \/ \E p \in Procs : pc'[p] # pc[p] /\ K(p) = k
                   \/ \E p \in Procs : pc'[p] # pc[p] /\ op[p].name = "Flush"
                   \/ jpc = "Sweep" /\ jpc' # jpc]_vars

\* C38 witness: a Delete has removed the written entry of k1 and an Add on
\* k1 could fail before it, while the entry written under k2 with an
\* expiration is stored as written.
C38_Witness ==
    /\ op[1].name = "Delete" /\ K(1) = "k1" /\ pc[1] = "Unlock"
    /\ "k1" \in everWritten /\ ~storageFound(items, "k1")
    /\ storageFound(items, "k2") /\ "k2" \in DOMAIN lastWrite
    /\ items["k2"].Object = lastWrite["k2"].x
    /\ items["k2"].Expiration > 0

\* C39: no step of a Get changes the storage: every key keeps its entry,
\* value and timestamps, the key read included, be its entry expired, stale
\* or neither.
C39_GetLeavesStorage ==
    [][\A p \in Procs :
        pc'[p] # pc[p] /\ op[p].name = "Get" /\ pc[p] # "done"
            => /\ items' = items
               /\ \A k \in Keys : EntryOf(items', k) = EntryOf(items, k)]_vars

\* C39 witness: a Get has answered not found for a key whose expired entry
\* is still stored, with the value and the timestamps it was written with.
C39_Witness ==
    \E p \in Procs :
        /\ GetAnswered(p) /\ ~ret[p].found
        /\ storageFound(items, K(p))
        /\ ~Live(items[K(p)], ret[p].at)
        /\ K(p) \in DOMAIN lastWrite
        /\ items[K(p)].Object = lastWrite[K(p)].x
        /\ items[K(p)].Expiration = lastWrite[K(p)].t + lastWrite[K(p)].d


\* The read of p found an entry that was not expired and whose refresh
\* deadline, which is not 0, had passed at the clock reading of the read.
ReadFoundStale(p) ==
    /\ locals[p].found
    /\ locals[p].v.Expiration = 0 \/ locals[p].t <= locals[p].v.Expiration
    /\ locals[p].v.RefreshDeadline > 0
    /\ locals[p].t > locals[p].v.RefreshDeadline

\* C35: a key enters the dedup set, and a goroutine is started to push it,
\* only by the dispatch step of a Get, Add or Replace on that key whose read
\* found an entry that was not expired and whose nonzero refresh deadline had
\* passed; a key enters the queue only from such a goroutine, a worker takes
\* a key only from the head of the queue, and a callback is started only by
\* a worker with the key it took.  No step of an Increment or Decrement
\* changes the dedup set, the goroutines or the queue.
C35_CallbackOnlyAfterStaleRead ==
    /\ [][\A k \in Keys :
            pushers'[k] > pushers[k] \/ (k \in refreshConcurrencyMap' \ refreshConcurrencyMap)
                => \E p \in Procs :
                    /\ pc[p] = "RefreshCheck" /\ pc'[p] # pc[p]
                    /\ K(p) = k
                    /\ op[p].name \in {"Get", "Add", "Replace"}
                    /\ ReadFoundStale(p)]_vars
    /\ [][\A k \in Keys :
            Queued(k)' > Queued(k)
                => Queued(k)' = Queued(k) + 1 /\ pushers'[k] = pushers[k] - 1]_vars
    /\ [][\A w \in Workers :
            wpc[w] # "call" /\ wpc'[w] = "call"
                => /\ refreshKeys # <<>>
                   /\ wkey'[w] = Head(refreshKeys)
                   /\ refreshKeys' = Tail(refreshKeys)]_vars
    /\ [][\A k \in Keys :
            invoked'[k] > invoked[k]
                => \E w \in Workers :
                    wpc[w] = "call" /\ wpc'[w] # "call" /\ wkey[w] = k]_vars
    /\ [][\A p \in Procs :
            pc'[p] # pc[p] /\ op[p].name \in ArithNames
                => UNCHANGED <<refreshConcurrencyMap, pushers, refreshKeys, invoked>>]_vars

\* C35 witness: the callback is running with k1 after a Replace or an Add
\* that found k1 stale, while an Increment went through on the stale entry.
C35_Witness ==
    \E p, q \in Procs, w \in Workers :
        /\ op[p].name \in {"Add", "Replace"} /\ pc[p] = "done"
        /\ ReadFoundStale(p)
        /\ wpc[w] = "running" /\ wkey[w] = K(p)
        /\ op[q].name \in ArithNames /\ pc[q] = "done" /\ ret[q].err = ""
        /\ K(q) = K(p)
        /\ storageFound(items, K(q)) /\ Stale(items[K(q)], ret[q].at)


\* C40: no step of a Set, a Delete, a Flush or the janitor changes the dedup
\* set, the pushing goroutines or the refresh queue; a key leaves the dedup
\* set only by the step of a worker whose callback for that key has
\* returned; and for a key in the dedup set the callback is invoked,
\* whatever becomes of its entry.
C40_RefreshSurvivesRemoval ==
    /\ [][(\/ \E p \in Procs :
                pc'[p] # pc[p] /\ op[p].name \in {"Set", "Delete", "Flush"}
           \/ jpc' # jpc)
            => UNCHANGED <<refreshConcurrencyMap, pushers, refreshKeys>>]_vars
    /\ [][\A k \in refreshConcurrencyMap \ refreshConcurrencyMap' :
            \E w \in Workers :
                wpc[w] = "delete" /\ wpc'[w] # "delete" /\ wkey[w] = k /\ invoked[k] >= 1]_vars
    /\ \A k \in Keys : (k \in refreshConcurrencyMap) ~> (invoked[k] >= 1)

\* C40 witness: the callback runs with k1, which is in the dedup set, after
\* the janitor has swept the expired entry the Get had found stale.
C40_Witness ==
    \E w \in Workers, p \in Procs :
        /\ wpc[w] = "running" /\ wkey[w] = "k1"
        /\ "k1" \in refreshConcurrencyMap
        /\ op[p].name = "Get" /\ pc[p] = "done" /\ ret[p].found
        /\ ~storageFound(items, "k1")
        /\ removedBy["k1"] = "no"
        /\ jnow > MaxTime


\* The callback of worker w was called and never returns.
Stuck(w) == wpc[w] = "stuck"

\* C31: the key a worker is stuck with is in the dedup set and is not queued
\* again: no goroutine is pushing it and the queue does not hold it.
C31_StuckKeyStaysDeduplicated ==
    \A w \in Workers :
        Stuck(w) =>
            /\ wkey[w] \in refreshConcurrencyMap
            /\ pushers[wkey[w]] = 0
            /\ Queued(wkey[w]) = 0


\* The goroutines that take locks, and the locks each holds.
Goroutines ==
    {Caller(p) : p \in Procs} \cup {Worker(w) : w \in Workers} \cup {Janitor}
ReaderOf(g) == IF g[1] = "caller" THEN g[2] ELSE NumCallers + g[2]
HoldsStorage(g) == writer = g \/ (g # Janitor /\ ReaderOf(g) \in readers)
HoldsDedup(g) == refreshConcurrencyMutex = g

\* The goroutine is about to ask for a lock: the storage lock, the dedup lock.
AsksStorage(g) ==
    \/ \E p \in Procs : g = Caller(p) /\ pc[p] \in {"Lock", "RLock"}
    \/ \E w \in Workers : g = Worker(w) /\ wpc[w] \in {"SetLock", "GetRLock"}
    \/ g = Janitor /\ jpc = "Lock"
AsksDedup(g) ==
    \/ \E p \in Procs : g = Caller(p) /\ pc[p] \in {"RefreshLock", "RefreshLock2"}
    \/ \E w \in Workers : g = Worker(w) /\ wpc[w] \in {"Lock", "GetRefreshLock"}

\* The goroutine is outside every operation: a caller before or after its
\* call, a worker waiting for a key or inside the user's callback.
Outside(g) ==
    \/ \E p \in Procs : g = Caller(p) /\ pc[p] \in {"idle", "done"}
    \/ \E w \in Workers :
        g = Worker(w) /\ wpc[w] \in {"recv", "call", "running", "stuck", "Set"}
    \/ g = Janitor /\ jpc = "wait"

\* C32: a goroutine outside every operation holds no lock, so each call has
\* released what it took on every return, the error returns included; a
\* goroutine that asks for the storage lock holds neither lock, one that
\* holds the dedup lock is not asking for any lock, and a caller asks for the
\* dedup lock only while it holds the storage lock; the holder of the dedup
\* lock can always take its next step, which releases it, and the holder of
\* the storage lock can take a step unless it is asking for the dedup lock;
\* and every call that was started returns, also when the callback calls Set
\* or Get or never returns.
C32_NoDeadlock ==
    /\ [](\A g \in Goroutines :
            /\ Outside(g) => ~HoldsStorage(g) /\ ~HoldsDedup(g)
            /\ AsksStorage(g) => ~HoldsStorage(g) /\ ~HoldsDedup(g)
            /\ HoldsDedup(g) => ~AsksStorage(g) /\ ~AsksDedup(g)
            /\ AsksDedup(g) /\ g[1] = "caller" => HoldsStorage(g))
    /\ [](/\ \A p \in Procs :
                /\ HoldsDedup(Caller(p)) => ENABLED (RefreshCheck(p) \/ RefreshDelete(p))
                /\ HoldsStorage(Caller(p)) /\ ~AsksDedup(Caller(p)) => ENABLED CallStep(p)
          /\ \A w \in Workers :
                /\ HoldsDedup(Worker(w)) => ENABLED (WorkerDelete(w) \/ CallbackGet(w))
                /\ HoldsStorage(Worker(w)) /\ ~AsksDedup(Worker(w))
                        => ENABLED (CallbackStep(w) \/ CallbackGet(w))
          /\ HoldsStorage(Janitor) => ENABLED (JanitorSweep \/ JanitorUnlock))
    /\ \A p \in Procs : (pc[p] # "idle") ~> (pc[p] = "done")

\* C32 witness: a Replace has returned its error and holds nothing while the
\* other caller, in a Get, holds the read lock and asks for the dedup lock,
\* which a worker holds, and the janitor asks for the storage lock.
C32_Witness ==
    \E p, q \in Procs, w \in Workers :
        /\ op[p].name \in {"Add", "Replace"} /\ pc[p] = "done" /\ ret[p].err # ""
        /\ op[q].name = "Get" /\ pc[q] = "RefreshLock" /\ q \in readers
        /\ HoldsDedup(Worker(w))
        /\ jpc = "Lock"


\* The value the lifetime history gives the entry of k: the value written,
\* with the amounts added since, in the arithmetic of its type.
HistoryValue(k) ==
    LET w == lastWrite[k]
    IN  Obj(w.x.type, IF w.x.type \in IntTypes
                      THEN Truncate(w.x.type, w.x.val + w.sum)
                      ELSE w.x.val + w.sum)

\* C34: what a call returns is given by the writes, Deletes and Flushes made
\* before it and by the clock reading of its read, whether or not a janitor
\* runs and whatever it has swept: the read of a Get, an Add or a Replace
\* finds the key exactly when its last write has not expired by then, Get
\* returns the value of that write with the amounts added since, Add and
\* Replace fail or go on accordingly, and an Increment or Decrement answers
\* not found exactly when that write has expired or is gone and otherwise
\* computes its sum from the same value.
C34_JanitorUnobservable ==
    [][\A p \in Procs :
        LET k == K(p)
            live == WrittenLive(k, now)
        IN  /\ pc[p] = "Get" /\ pc'[p] # "Get" =>
                /\ ret'[p].found = live
                /\ ret'[p].err = ""
                /\ ret'[p].value = (IF live THEN HistoryValue(k) ELSE Nil)
            /\ pc[p] = "get" /\ pc'[p] # "get" =>
                /\ ret'[p].found = live
                /\ op[p].name = "Add" => (ret'[p].err = "AlreadyExists") = live
                /\ op[p].name = "Replace" => (ret'[p].err = "NotFound") = ~live
            /\ pc[p] = "Load" /\ pc'[p] # "Load" =>
                /\ (ret'[p].err = "NotFound") = ~live
                /\ pc'[p] = "StoreBack" =>
                    locals'[p].v.Object = Arith(op[p].name, HistoryValue(k), op[p].n)]_vars

\* C34 witness: the janitor has swept the expired entry of k1, which no
\* Delete or Flush removed, and an Increment or a Replace made afterwards
\* has answered not found.
C34_Witness ==
    \E p \in Procs :
        /\ janitorOn
        /\ op[p].name \in {"Increment", "Replace"} /\ pc[p] = "done"
        /\ ret[p].err = "NotFound"
        /\ ~storageFound(items, "k1")
        /\ "k1" \in DOMAIN lastWrite /\ removedBy["k1"] = "no"

====
